---- MODULE Spec2Model ----
(***************************************************************************)
(* A model of glb-compressor: the custom glTF-Transform transforms of      *)
(* src/lib/transforms.ts (mergeByDistance, removeDegenerateFaces,          *)
(* normalizeWeights, removeStaticTracksWithBake) and the compress()        *)
(* pipeline with its gltfpack / meshopt dispatch.                          *)
(*                                                                         *)
(* Typed arrays are sequences (TLA+ index n+1 holds JS index n); an        *)
(* accessor is a record [arr, size] (getArray(), getElementSize()).        *)
(* Several primitives, or several semantics of one primitive, may name     *)
(* the same accessor, as glTF allows and transform.dedup() produces.       *)
(***************************************************************************)
EXTENDS Integers, Sequences, FiniteSets, TLC

VARIABLES
    acc,      \* geometry: accessor name -> [arr, size]
    prims,    \* geometry: the primitives, in listMeshes()/listPrimitives() order
    acc0,     \* geometry: the accessors when the document was loaded
    prev,     \* geometry: the accessors before the latest transform ran
    hist,     \* geometry: the transforms applied so far, in order
    thrown,   \* geometry: whether the latest transform threw a RangeError
    wacc,     \* weights: accessor name -> [arr, size, ctype]
    wprims,   \* weights: each primitive's WEIGHTS_0 accessor, or "none"
    wacc0,    \* weights: the accessors when the document was loaded
    wruns,    \* weights: how many times normalizeWeights has run
    channels, \* animation: the channels of all animations, in listAnimations()
              \*   / listChannels() order: [id, anim, node, path, sampler]
    samplers, \* animation: sampler id -> [output, out, size]: whether there is
              \*   an output accessor, its array and its element size
    disposed, \* animation: the samplers disposed so far
    channels0,\* animation: the channels when the document was loaded
    counts,   \* animation: the latest run's [removed, kept] diagnostic counters
    aruns,    \* animation: how many times removeStaticTracksWithBake has run
    pc,       \* compress: where the call is
    options,  \* compress: [preset, simplify, onLog] (simplify: a ratio in (0, 1)
              \*   is given; onLog: the caller passed a log callback)
    skins,    \* compress: [input, now]: document.getRoot().listSkins().length > 0
    hasGltfpack, \* compress: module flag set by doInit
    hasSkins, \* compress: the local const hasSkins
    calls,    \* compress: everything invoked so far, in order
    tempDir,  \* compressWithGltfpack: "none", "present" or "removed"
    proc,     \* compressWithGltfpack: the subprocess [state, will, obeys, code, args]
    timer,    \* compressWithGltfpack: "unset", "armed", "fired" or "cleared"
    elapsed,  \* compressWithGltfpack: time since the spawn
    external, \* compressWithGltfpack: [value, failure]: what the callback
              \*   returned ("none", "result" or "null") and what failed
    result,   \* compress: [buffer, method] returned
    thrownAt, \* compress: the step whose error reached the caller
    stream,   \* handleCompressStream: "none", "open" or "closed"
    events,   \* handleCompressStream: the events enqueued so far, <<event, data>>
    initPc,   \* init: where the module's doInit() is
    doInitRuns, \* init: how many times the body of doInit has started
    ioReady,  \* init: whether the module variable io has been assigned
    callers,  \* init: caller -> [kind, pc, io]: a pending init() or compress()
              \*   call, and what the compress call found in io when it read it
    ncalls    \* init: how many calls have been made

geomVars == <<acc, prims, acc0, prev, hist, thrown>>

weightVars == <<wacc, wprims, wacc0, wruns>>

animVars == <<channels, samplers, disposed, channels0, counts, aruns>>

pipeVars == <<pc, options, skins, hasGltfpack, hasSkins, calls, tempDir, proc,
              timer, elapsed, external, result, thrownAt, stream, events>>

\* The state of one compress call, without the module's flag.
callVars == <<pc, options, skins, hasSkins, calls, tempDir, proc, timer, elapsed,
              external, result, thrownAt, stream, events>>

initVars == <<initPc, doInitRuns, ioReady, callers, ncalls>>

vars == <<geomVars, weightVars, animVars, pipeVars, initVars>>

\* The parts of the state a specification does not use stay at these values.
GeomIdle ==
    /\ acc = <<>> /\ prims = <<>> /\ acc0 = <<>> /\ prev = <<>>
    /\ hist = <<>> /\ thrown = FALSE

WeightIdle == wacc = <<>> /\ wprims = <<>> /\ wacc0 = <<>> /\ wruns = 0

AnimIdle ==
    /\ channels = <<>> /\ samplers = <<>> /\ disposed = {} /\ channels0 = <<>>
    /\ counts = [removed |-> 0, kept |-> 0] /\ aruns = 0

InitIdle ==
    /\ initPc = "idle" /\ doInitRuns = 0 /\ ioReady = FALSE
    /\ callers = <<>> /\ ncalls = 0

NoProcess == [state |-> "none", will |-> "none", obeys |-> FALSE, code |-> 0, args |-> <<>>]

NoExternal == [value |-> "none", failure |-> "none"]

NoResult == [buffer |-> "none", method |-> "none"]

PipeIdle ==
    /\ pc = "idle"
    /\ options = [preset |-> "default", simplify |-> FALSE, onLog |-> FALSE]
    /\ skins = [input |-> FALSE, now |-> FALSE]
    /\ hasGltfpack = FALSE /\ hasSkins = FALSE /\ calls = <<>>
    /\ tempDir = "none" /\ proc = NoProcess /\ timer = "unset" /\ elapsed = 0
    /\ external = NoExternal /\ result = NoResult /\ thrownAt = "none"
    /\ stream = "none" /\ events = <<>>

(***************************************************************************)
(* Bounds and units                                                        *)
(***************************************************************************)

\* Vertices per vertex-attribute accessor of the generated documents.
MaxVerts == 3

\* mergeByDistance's tolerance, in coordinate units: a coordinate c stands
\* for c * (tolerance / 2), so that two distinct coordinates can share a key.
MERGE_TOLERANCE == 2

\* Twice removeDegenerateFaces' minArea, in square coordinate units: one below
\* the area of every triangle of positive area, one above the smallest.
MinAreas2 == {1, 5}

\* Primitive modes (line 391: only mode 4 is processed).
TRIANGLES == 4

LINES == 1

(***************************************************************************)
(* at(): src/lib/transforms.ts 36-41                                       *)
(***************************************************************************)

\* A check that takes the last element of the array for undefined as well.
atThrowsAtLast(arr, i) == i < 0 \/ i + 1 >= Len(arr)

\* at(arr, i) throws a RangeError exactly when arr[i] is undefined.
atThrows(arr, i) == i < 0 \/ i >= Len(arr)

at(arr, i) == arr[i + 1]

(***************************************************************************)
(* mergeByDistance: src/lib/transforms.ts 58-141                           *)
(***************************************************************************)

\* Math.round(c * precision) with precision = 1 / tolerance: the nearest
\* integer to c / tolerance, halves rounded towards +infinity.
RoundScaled(c, tolerance) == (2 * c + tolerance) \div (2 * tolerance)

\* The key `${x},${y},${z}` of vertex i (lines 80-83).
VertexKey(positions, i, tolerance) ==
    << RoundScaled(at(positions, i * 3), tolerance),
       RoundScaled(at(positions, i * 3 + 1), tolerance),
       RoundScaled(at(positions, i * 3 + 2), tolerance) >>

\* Lines 79-94: the spatial hash. newToOld lists the first-seen vertex of each
\* key; remap sends every vertex to the position of its key's first vertex.
RECURSIVE BuildRemap(_, _, _, _, _)
BuildRemap(positions, tolerance, i, remap, newToOld) ==
    IF i >= Len(positions) \div 3 THEN [remap |-> remap, newToOld |-> newToOld]
    ELSE LET key == VertexKey(positions, i, tolerance)
             hits == {k \in 1..Len(newToOld) :
                         VertexKey(positions, newToOld[k], tolerance) = key}
         IN IF hits # {}
            THEN BuildRemap(positions, tolerance, i + 1,
                            Append(remap, (CHOOSE k \in hits : TRUE) - 1), newToOld)
            ELSE BuildRemap(positions, tolerance, i + 1,
                            Append(remap, Len(newToOld)), Append(newToOld, i))

\* Lines 101-104: newIndices[i] = at(remap, at(indices, i)).
RemapThrows(indices, remap) ==
    \E n \in 1..Len(indices) : atThrows(remap, indices[n])

RemapIndices(indices, remap) ==
    [n \in 1..Len(indices) |-> at(remap, indices[n])]

\* Lines 114-127: gather the canonical vertices of one attribute array.
GatherThrows(oldArray, itemSize, newToOld) ==
    \E k \in 1..Len(newToOld) : \E j \in 0..(itemSize - 1) :
        atThrows(oldArray, newToOld[k] * itemSize + j)

Gather(oldArray, itemSize, newToOld) ==
    [n \in 1..(Len(newToOld) * itemSize) |->
        at(oldArray, newToOld[((n - 1) \div itemSize) + 1] * itemSize
                     + ((n - 1) % itemSize))]

\* Lines 107-129: every semantic of the primitive in listSemantics() order;
\* each reads its accessor's current array, so an accessor named by two
\* semantics is gathered twice. A throw leaves the earlier setArray calls done.
RECURSIVE CompactAttributes(_, _, _, _)
CompactAttributes(a, sems, n, newToOld) ==
    IF n > Len(sems) THEN [acc |-> a, thrown |-> FALSE]
    ELSE LET id == sems[n][2]
             oldArray == a[id].arr
             itemSize == a[id].size
         IN IF GatherThrows(oldArray, itemSize, newToOld)
            THEN [acc |-> a, thrown |-> TRUE]
            ELSE CompactAttributes(
                     [a EXCEPT ![id].arr = Gather(oldArray, itemSize, newToOld)],
                     sems, n + 1, newToOld)

\* Lines 65-131: one primitive.
MergePrimitive(a, prim, tolerance) ==
    LET positions == a[prim.sem[1][2]].arr
        indices == a[prim.indices].arr
        built == BuildRemap(positions, tolerance, 0, <<>>, <<>>)
        removed == (Len(positions) \div 3) - Len(built.newToOld)
    IN IF removed = 0 THEN [acc |-> a, thrown |-> FALSE]
       ELSE IF RemapThrows(indices, built.remap) THEN [acc |-> a, thrown |-> TRUE]
       ELSE LET c == CompactAttributes(a, prim.sem, 1, built.newToOld)
            IN IF c.thrown THEN c
               ELSE [acc |-> [c.acc EXCEPT ![prim.indices].arr =
                                  RemapIndices(indices, built.remap)],
                     thrown |-> FALSE]

\* Lines 63-133: every primitive in order; an exception ends the transform.
RECURSIVE mergeByDistanceFrom(_, _, _, _)
mergeByDistanceFrom(a, ps, n, tolerance) ==
    IF n > Len(ps) THEN [acc |-> a, thrown |-> FALSE]
    ELSE LET r == MergePrimitive(a, ps[n], tolerance)
         IN IF r.thrown THEN r ELSE mergeByDistanceFrom(r.acc, ps, n + 1, tolerance)

mergeByDistance(a, ps, tolerance) == mergeByDistanceFrom(a, ps, 1, tolerance)

(***************************************************************************)
(* removeDegenerateFaces: src/lib/transforms.ts 385-457                    *)
(***************************************************************************)

Vertex(positions, i) ==
    << at(positions, i * 3), at(positions, i * 3 + 1), at(positions, i * 3 + 2) >>

\* Lines 426-435: the squared magnitude of the cross product of the edges,
\* (2 * area)^2.
CrossSq(v0, v1, v2) ==
    LET ax == v1[1] - v0[1]
        ay == v1[2] - v0[2]
        az == v1[3] - v0[3]
        bx == v2[1] - v0[1]
        by == v2[2] - v0[2]
        bz == v2[3] - v0[3]
        cx == ay * bz - az * by
        cy == az * bx - ax * bz
        cz == ax * by - ay * bx
    IN cx * cx + cy * cy + cz * cz

\* The area computed without its factor 0.5.
AreaBelowNoHalf(positions, i0, i1, i2, minArea2) ==
    4 * CrossSq(Vertex(positions, i0), Vertex(positions, i1), Vertex(positions, i2))
        < minArea2 * minArea2

\* Line 437: area < minArea, with area = 0.5 * sqrt(CrossSq): squared on both
\* sides (both are non-negative), (2 * area)^2 < (2 * minArea)^2.
AreaBelow(positions, i0, i1, i2, minArea2) ==
    CrossSq(Vertex(positions, i0), Vertex(positions, i1), Vertex(positions, i2))
        < minArea2 * minArea2

\* Lines 403-443: the loop over index triples, i += 3.
RECURSIVE FilterFaces(_, _, _, _, _)
FilterFaces(positions, indices, i, validIndices, minArea2) ==
    IF i >= Len(indices) THEN [valid |-> validIndices, thrown |-> FALSE]
    ELSE IF atThrows(indices, i + 1) \/ atThrows(indices, i + 2)
         THEN [valid |-> validIndices, thrown |-> TRUE]
    ELSE LET i0 == at(indices, i)
             i1 == at(indices, i + 1)
             i2 == at(indices, i + 2)
         IN IF i0 = i1 \/ i1 = i2 \/ i0 = i2
            THEN FilterFaces(positions, indices, i + 3, validIndices, minArea2)
            ELSE IF \E v \in {i0, i1, i2} : atThrows(positions, v * 3 + 2)
                 THEN [valid |-> validIndices, thrown |-> TRUE]
            ELSE IF AreaBelow(positions, i0, i1, i2, minArea2)
                 THEN FilterFaces(positions, indices, i + 3, validIndices, minArea2)
            ELSE FilterFaces(positions, indices, i + 3,
                             validIndices \o <<i0, i1, i2>>, minArea2)

\* Lines 390-447: one primitive.
CleanPrimitive(a, prim, minArea2) ==
    IF prim.mode # TRIANGLES THEN [acc |-> a, thrown |-> FALSE]
    ELSE LET positions == a[prim.sem[1][2]].arr
             indices == a[prim.indices].arr
             f == FilterFaces(positions, indices, 0, <<>>, minArea2)
         IN IF f.thrown THEN [acc |-> a, thrown |-> TRUE]
            ELSE IF Len(f.valid) < Len(indices)
                 THEN [acc |-> [a EXCEPT ![prim.indices].arr = f.valid],
                       thrown |-> FALSE]
            ELSE [acc |-> a, thrown |-> FALSE]

RECURSIVE removeDegenerateFacesFrom(_, _, _, _)
removeDegenerateFacesFrom(a, ps, n, minArea2) ==
    IF n > Len(ps) THEN [acc |-> a, thrown |-> FALSE]
    ELSE LET r == CleanPrimitive(a, ps[n], minArea2)
         IN IF r.thrown THEN r
            ELSE removeDegenerateFacesFrom(r.acc, ps, n + 1, minArea2)

removeDegenerateFaces(a, ps, minArea2) == removeDegenerateFacesFrom(a, ps, 1, minArea2)

(***************************************************************************)
(* The documents the geometry transforms are run on                        *)
(***************************************************************************)

\* Positions: an origin, a point half a tolerance away from it (same key), and
\* a point that spans a small triangle with them; FarPoint spans larger ones.
PosPoints == { <<0, 0, 0>>, <<-1, 0, 0>>, <<4, 4, 0>> }

FarPoint == <<0, 8, 0>>

Flatten(vs) == [n \in 1..(3 * Len(vs)) |-> vs[((n - 1) \div 3) + 1][((n - 1) % 3) + 1]]

Reverse(s) == [n \in 1..Len(s) |-> s[Len(s) + 1 - n]]

\* Points of which no two share a key and no three span a small triangle.
SpreadPoint(k) == <<8 * k, 8 * k * k, 0>>

\* A two-component attribute whose values name the accessor and the vertex.
Labels(base, count) ==
    [n \in 1..(2 * count) |-> base + 10 * ((n - 1) \div 2) + ((n - 1) % 2)]

\* P1, U1, I1: the chosen vertices and one triangle over them. P2, U2, I2: the
\* same vertices in reverse order and FarPoint, with two triangles. I3: two
\* triangles over the chosen vertices. P3: as many spread vertices as P2 has.
MakeAccessors(vs, tri) ==
    [ P1 |-> [arr |-> Flatten(vs), size |-> 3],
      P2 |-> [arr |-> Flatten(Append(Reverse(vs), FarPoint)), size |-> 3],
      P3 |-> [arr |-> Flatten([k \in 1..(Len(vs) + 1) |-> SpreadPoint(k - 1)]), size |-> 3],
      U1 |-> [arr |-> Labels(100, Len(vs)), size |-> 2],
      U2 |-> [arr |-> Labels(200, Len(vs) + 1), size |-> 2],
      I1 |-> [arr |-> tri, size |-> 1],
      I2 |-> [arr |-> <<0, 1, Len(vs)>> \o Reverse(tri), size |-> 1],
      I3 |-> [arr |-> Reverse(tri) \o <<0, 1, 2>>, size |-> 1] ]

\* A primitive: its mode, its semantics in listSemantics() order, its indices.
Primitive(mode, pos, t0, t1, idx) ==
    [ mode |-> mode,
      sem |-> IF t1 = "none"
              THEN << <<"POSITION", pos>>, <<"TEXCOORD_0", t0>> >>
              ELSE << <<"POSITION", pos>>, <<"TEXCOORD_0", t0>>, <<"TEXCOORD_1", t1>> >>,
      indices |-> idx ]

\* The first primitive owns P1, U1 and I1. The layouts: nothing shared; the
\* vertex accessors shared under separate index accessors; one accessor under
\* two semantics of a primitive; the index accessor shared; every accessor
\* shared; a LINES primitive; and the index accessor shared by a primitive
\* over the spread vertices.
Layouts ==
    { << Primitive(TRIANGLES, "P1", "U1", "none", "I1"),
         Primitive(TRIANGLES, "P2", "U2", "none", "I2") >>,
      << Primitive(TRIANGLES, "P1", "U1", "none", "I1"),
         Primitive(TRIANGLES, "P1", "U1", "none", "I3") >>,
      << Primitive(TRIANGLES, "P1", "U1", "U1", "I1"),
         Primitive(TRIANGLES, "P2", "U2", "none", "I2") >>,
      << Primitive(TRIANGLES, "P1", "U1", "none", "I1"),
         Primitive(TRIANGLES, "P2", "U2", "none", "I1") >>,
      << Primitive(TRIANGLES, "P1", "U1", "none", "I1"),
         Primitive(TRIANGLES, "P1", "U1", "none", "I1") >>,
      << Primitive(TRIANGLES, "P1", "U1", "none", "I1"),
         Primitive(LINES, "P2", "U2", "none", "I2") >>,
      << Primitive(TRIANGLES, "P1", "U1", "none", "I1"),
         Primitive(TRIANGLES, "P3", "U2", "none", "I1") >> }

GeomInit ==
    \E vs \in [1..MaxVerts -> PosPoints], tri \in [1..3 -> 0..(MaxVerts - 1)],
       lay \in Layouts :
        /\ acc = MakeAccessors(vs, tri)
        /\ prims = lay
        /\ acc0 = acc
        /\ prev = acc
        /\ hist = <<>>
        /\ thrown = FALSE
        /\ WeightIdle /\ AnimIdle /\ PipeIdle /\ InitIdle

\* document.transform(mergeByDistance(MERGE_TOLERANCE)), on a loaded document
\* or after an earlier mergeByDistance.
RunMerge ==
    /\ hist \in {<<>>, << <<"merge", MERGE_TOLERANCE>> >>}
    /\ LET r == mergeByDistance(acc, prims, MERGE_TOLERANCE)
       IN /\ acc' = r.acc
          /\ thrown' = r.thrown
    /\ prev' = acc
    /\ hist' = Append(hist, <<"merge", MERGE_TOLERANCE>>)
    /\ UNCHANGED <<prims, acc0, weightVars, animVars, pipeVars, initVars>>

\* document.transform(removeDegenerateFaces(minArea)), on a loaded document,
\* after mergeByDistance, or a second time with the same minArea. An exception
\* of mergeByDistance ends the transform chain before it.
RunClean ==
    /\ hist # <<>> => ~thrown
    /\ \E minArea2 \in MinAreas2 :
        /\ hist \in {<<>>, << <<"merge", MERGE_TOLERANCE>> >>, << <<"clean", minArea2>> >>}
        /\ LET r == removeDegenerateFaces(acc, prims, minArea2)
           IN /\ acc' = r.acc
              /\ thrown' = r.thrown
        /\ hist' = Append(hist, <<"clean", minArea2>>)
    /\ prev' = acc
    /\ UNCHANGED <<prims, acc0, weightVars, animVars, pipeVars, initVars>>

GeomNext == RunMerge \/ RunClean

SpecGeom == GeomInit /\ [][GeomNext]_vars

\* Documents that break an invariant of the format: one TRIANGLES primitive
\* whose indices may name the vertex after the last one, whose index buffer
\* may have a fourth element, and whose TEXCOORD_0 buffer may lack the last
\* vertex. The positions are the chosen ones or the spread ones.
InvalidInit ==
    \E vs \in [1..MaxVerts -> PosPoints] \cup {[k \in 1..MaxVerts |-> SpreadPoint(k - 1)]},
       tri \in [1..3 -> 0..MaxVerts],
       extra \in {<<>>, <<0>>}, short \in {0, 1} :
        /\ acc = [ P1 |-> [arr |-> Flatten(vs), size |-> 3],
                   U1 |-> [arr |-> Labels(100, Len(vs) - short), size |-> 2],
                   I1 |-> [arr |-> tri \o extra, size |-> 1] ]
        /\ prims = << Primitive(TRIANGLES, "P1", "U1", "none", "I1") >>
        /\ acc0 = acc
        /\ prev = acc
        /\ hist = <<>>
        /\ thrown = FALSE
        /\ WeightIdle /\ AnimIdle /\ PipeIdle /\ InitIdle

SpecGeomInvalid == InvalidInit /\ [][GeomNext]_vars


(***************************************************************************)
(* normalizeWeights: src/lib/transforms.ts 276-312                         *)
(*                                                                         *)
(* WEIGHTS_0 is stored as FLOAT or as normalized UNSIGNED_BYTE/SHORT;      *)
(* getArray() returns the stored numbers. A Float32Array element is        *)
(* modelled in units of 2^-24 (the spacing of float32 in [1, 2)), so a     *)
(* store rounds to the nearest unit; a Uint8Array element is its integer.  *)
(***************************************************************************)

\* The number 1.0 in the units of a component type.
FloatOne == 16777216

One(ctype) == IF ctype = "f32" THEN FloatOne ELSE 1

\* Line 296's 1e-6 in float units: 1e-6 * 2^24 = 16.78, and a whole number of
\* units exceeds it exactly when it exceeds 16. No integer lies within 1e-6
\* of another.
FloatEps == 16

Eps(ctype) == IF ctype = "f32" THEN FloatEps ELSE 0

Abs(x) == IF x < 0 THEN -x ELSE x

\* floor(r * 2^bits / d) and its remainder, for 0 <= r < d, one bit at a time.
RECURSIVE ShiftDivide(_, _, _, _)
ShiftDivide(r, d, bits, q) ==
    IF bits = 0 THEN [q |-> q, r |-> r]
    ELSE IF 2 * r >= d THEN ShiftDivide(2 * r - d, d, bits - 1, 2 * q + 1)
                       ELSE ShiftDivide(2 * r, d, bits - 1, 2 * q)

\* Line 298 on a Float32Array: w / sum rounded to the nearest unit, ties to even.
StoreFloat(w, sum) ==
    LET f == ShiftDivide(w % sum, sum, 24, 0)
        q == (w \div sum) * FloatOne + f.q
    IN IF 2 * f.r > sum \/ (2 * f.r = sum /\ q % 2 = 1) THEN q + 1 ELSE q

\* Line 298 on a Uint8Array: the fraction is truncated, modulo 2^8.
StoreUint8(w, sum) == (w \div sum) % 256

StoreQuotient(ctype, w, sum) ==
    IF ctype = "f32" THEN StoreFloat(w, sum) ELSE StoreUint8(w, sum)

\* Lines 292-295.
RECURSIVE ComponentSum(_, _, _, _)
ComponentSum(arr, i, elementSize, j) ==
    IF j >= elementSize THEN 0
    ELSE at(arr, i * elementSize + j) + ComponentSum(arr, i, elementSize, j + 1)

\* A condition without the comparison to 1.0.
NeedsNormalizingWhenPositive(sum, ctype) == sum > 0

\* Line 296: sum > 0 && Math.abs(sum - 1.0) > 1e-6.
NeedsNormalizing(sum, ctype) == sum > 0 /\ Abs(sum - One(ctype)) > Eps(ctype)

\* Lines 291-302: the vertices in order, written back into the same array.
RECURSIVE NormalizeVertices(_, _, _, _)
NormalizeVertices(arr, elementSize, ctype, i) ==
    IF i >= Len(arr) \div elementSize THEN arr
    ELSE LET sum == ComponentSum(arr, i, elementSize, 0)
         IN IF NeedsNormalizing(sum, ctype)
            THEN NormalizeVertices(
                     [n \in 1..Len(arr) |->
                         IF (n - 1) \div elementSize = i
                         THEN StoreQuotient(ctype, arr[n], sum) ELSE arr[n]],
                     elementSize, ctype, i + 1)
            ELSE NormalizeVertices(arr, elementSize, ctype, i + 1)

\* Lines 280-306: every primitive that has a WEIGHTS_0 attribute.
RECURSIVE normalizeWeightsFrom(_, _, _)
normalizeWeightsFrom(a, ps, n) ==
    IF n > Len(ps) THEN a
    ELSE IF ps[n] = "none" THEN normalizeWeightsFrom(a, ps, n + 1)
    ELSE LET w == a[ps[n]]
         IN normalizeWeightsFrom(
                [a EXCEPT ![ps[n]].arr = NormalizeVertices(w.arr, w.size, w.ctype, 0)],
                ps, n + 1)

normalizeWeights(a, ps) == normalizeWeightsFrom(a, ps, 1)

\* Vertices per WEIGHTS_0 accessor of the generated documents.
MaxWeightVerts == 1

\* WEIGHTS_0 is a VEC4 accessor.
WeightElementSize == 4

\* Stored component values: float weights 0, 8 units (two of them are within
\* 1e-6, three are not) and 1.0; byte weights.
WeightValues(ctype) == IF ctype = "f32" THEN {0, 8, FloatOne} ELSE {0, 127, 128}

\* One primitive with weights; two primitives sharing the accessor; a
\* primitive without WEIGHTS_0 before one with it.
WeightLayouts == { <<"W1">>, <<"W1", "W1">>, <<"none", "W1">> }

WeightInit ==
    \E ctype \in {"f32", "u8"}, lay \in WeightLayouts :
    \E arr \in [1..(MaxWeightVerts * WeightElementSize) -> WeightValues(ctype)] :
        /\ wacc = [W1 |-> [arr |-> arr, size |-> WeightElementSize, ctype |-> ctype]]
        /\ wprims = lay
        /\ wacc0 = wacc
        /\ wruns = 0
        /\ GeomIdle /\ AnimIdle /\ PipeIdle /\ InitIdle

\* document.transform(normalizeWeights()), once or twice.
RunNormalize ==
    /\ wruns < 2
    /\ wacc' = normalizeWeights(wacc, wprims)
    /\ wruns' = wruns + 1
    /\ UNCHANGED <<wprims, wacc0, geomVars, animVars, pipeVars, initVars>>

WeightNext == RunNormalize

SpecWeights == WeightInit /\ [][WeightNext]_vars


(***************************************************************************)
(* removeStaticTracksWithBake: src/lib/transforms.ts 479-681               *)
(*                                                                         *)
(* Keyframe values are integers in units of the tolerance.                 *)
(***************************************************************************)

\* The tolerance, in value units.
TRACK_TOLERANCE == 1

\* doc.getRoot().listNodes(): each node's rest pose, whether it has a mesh,
\* and the morph-target weights of that mesh.
Nodes ==
    << [ translation |-> <<0, 0, 0>>, rotation |-> <<0, 0, 0, 1>>,
         scale |-> <<1, 1, 1>>, mesh |-> TRUE, meshWeights |-> <<0>> ],
       [ translation |-> <<5, 0, 0>>, rotation |-> <<0, 0, 0, 1>>,
         scale |-> <<1, 1, 1>>, mesh |-> TRUE, meshWeights |-> <<0, 0>> ],
       [ translation |-> <<0, 0, 0>>, rotation |-> <<0, 0, 0, 1>>,
         scale |-> <<1, 1, 1>>, mesh |-> FALSE, meshWeights |-> <<>> ] >>

\* Lines 518-519 and 635-636: the key nodeIdx::targetPath.
TrackKey(ch) == <<ch.node, ch.path>>

\* channel.getSampler() is not null: the sampler has not been disposed.
hasSampler(ch, gone) == ch.sampler \notin gone

\* Lines 512-526: the channels Pass 1 analyses, those with a sampler whose
\* output accessor holds a non-empty array.
Analysed(ch, smp, gone) ==
    /\ hasSampler(ch, gone)
    /\ smp[ch.sampler].output
    /\ Len(smp[ch.sampler].out) > 0

\* Lines 533-535: outputArray.slice(0, elementSize).
FirstValues(out, elementSize) ==
    SubSeq(out, 1, IF elementSize < Len(out) THEN elementSize ELSE Len(out))

\* Lines 532-550: every keyframe within the tolerance of the first one.
IsStatic(out, elementSize, tolerance) ==
    \A i \in 1..((Len(out) \div elementSize) - 1) : \A j \in 0..(elementSize - 1) :
        Abs(at(out, i * elementSize + j) - at(out, j)) <= tolerance

\* Lines 557-560 (staticValue is read of static tracks only).
TrackInfo(ch, smp, tolerance) ==
    LET out == smp[ch.sampler].out
        elementSize == smp[ch.sampler].size
        isStatic == IsStatic(out, elementSize, tolerance)
    IN [ isStatic |-> isStatic,
         staticValue |-> IF isStatic THEN FirstValues(out, elementSize) ELSE <<>> ]

\* Pass 1, lines 510-562: globalTrackMap.get(key), in channel order.
RECURSIVE TrackList(_, _, _, _, _, _)
TrackList(chs, smp, gone, key, tolerance, n) ==
    IF n > Len(chs) THEN <<>>
    ELSE IF TrackKey(chs[n]) = key /\ Analysed(chs[n], smp, gone)
         THEN <<TrackInfo(chs[n], smp, tolerance)>>
                  \o TrackList(chs, smp, gone, key, tolerance, n + 1)
         ELSE TrackList(chs, smp, gone, key, tolerance, n + 1)

\* Lines 576-584 and 614-620: same length, every component within the tolerance.
Agrees(value, reference, tolerance) ==
    /\ Len(value) = Len(reference)
    /\ \A i \in 1..Len(value) : Abs(value[i] - reference[i]) <= tolerance

\* Lines 596-612: the node's rest value for the path.
BaseValue(node, path) ==
    CASE path = "translation" -> Nodes[node].translation
      [] path = "rotation" -> Nodes[node].rotation
      [] path = "scale" -> Nodes[node].scale
      [] path = "weights" -> Nodes[node].meshWeights

\* Lines 596-613: baseValue is not null. A weights path has a base value
\* only when the node has a mesh.
HasBaseValue(node, path) ==
    /\ path \in {"translation", "rotation", "scale", "weights"}
    /\ path = "weights" => Nodes[node].mesh

\* The Pass 2 test without its all-static condition.
RemovableIgnoringDynamic(tracks, key, tolerance) ==
    LET statics == SelectSeq(tracks, LAMBDA t : t.isStatic)
    IN /\ statics # <<>>
       /\ \A n \in 1..Len(statics) :
              Agrees(statics[n].staticValue, statics[1].staticValue, tolerance)
       /\ HasBaseValue(key[1], key[2])
       /\ Agrees(BaseValue(key[1], key[2]), statics[1].staticValue, tolerance)

\* Pass 2, lines 567-625: whether removableKeys gets the key.
Removable(tracks, key, tolerance) ==
    /\ tracks # <<>>
    /\ \A n \in 1..Len(tracks) : tracks[n].isStatic
    /\ \A n \in 1..Len(tracks) :
           Agrees(tracks[n].staticValue, tracks[1].staticValue, tolerance)
    /\ key[1] \in 1..Len(Nodes)
    /\ HasBaseValue(key[1], key[2])
    /\ Agrees(BaseValue(key[1], key[2]), tracks[1].staticValue, tolerance)

\* A Pass 2 that marks no more than one key per run.
RemovableKeysOneAtATime(chs, smp, gone, tolerance) ==
    LET all == { key \in {TrackKey(chs[n]) : n \in 1..Len(chs)} :
                   Removable(TrackList(chs, smp, gone, key, tolerance, 1), key, tolerance) }
    IN IF all = {} THEN {} ELSE {CHOOSE key \in all : TRUE}

RemovableKeys(chs, smp, gone, tolerance) ==
    { key \in {TrackKey(chs[n]) : n \in 1..Len(chs)} :
        Removable(TrackList(chs, smp, gone, key, tolerance, 1), key, tolerance) }

\* The referencing channels alone, without the owning animation.
ParentCountOfChannels(chs, sampler) ==
    Cardinality({n \in 1..Len(chs) : chs[n].sampler = sampler})

\* sampler.listParents(): the animation that owns the sampler and every
\* channel that references it.
ParentCount(chs, sampler) ==
    1 + Cardinality({n \in 1..Len(chs) : chs[n].sampler = sampler})

\* Lines 645-666: the diagnostic of a retained channel, recomputed from the
\* output array (only for more than one keyframe).
CountsAsKept(ch, smp, gone, tolerance) ==
    /\ hasSampler(ch, gone)
    /\ smp[ch.sampler].output
    /\ Len(smp[ch.sampler].out) \div smp[ch.sampler].size > 1
    /\ IsStatic(smp[ch.sampler].out, smp[ch.sampler].size, tolerance)

\* Pass 3, lines 628-669: the channels in order. A channel of a removable key
\* is disposed, and its sampler with it when no more than one parent is left.
RECURSIVE Pass3(_, _, _, _, _, _, _)
Pass3(todo, chs, smp, gone, keys, tolerance, cnt) ==
    IF todo = <<>> THEN [channels |-> chs, disposed |-> gone, counts |-> cnt]
    ELSE LET ch == Head(todo)
         IN IF TrackKey(ch) \in keys
            THEN LET rest == SelectSeq(chs, LAMBDA c : c.id # ch.id)
                     gone2 == IF hasSampler(ch, gone)
                                 /\ ParentCount(rest, ch.sampler) <= 1
                              THEN gone \cup {ch.sampler} ELSE gone
                 IN Pass3(Tail(todo), rest, smp, gone2, keys, tolerance,
                          [cnt EXCEPT !.removed = @ + 1])
            ELSE Pass3(Tail(todo), chs, smp, gone, keys, tolerance,
                       IF CountsAsKept(ch, smp, gone, tolerance)
                       THEN [cnt EXCEPT !.kept = @ + 1] ELSE cnt)

removeStaticTracksWithBake(chs, smp, gone, tolerance) ==
    IF chs = <<>> THEN [channels |-> chs, disposed |-> gone,
                        counts |-> [removed |-> 0, kept |-> 0]]
    ELSE Pass3(chs, chs, smp, gone, RemovableKeys(chs, smp, gone, tolerance),
               tolerance, [removed |-> 0, kept |-> 0])

\* Animations of the generated documents: the first has two channels, every
\* other one has one.
MaxAnims == 2

\* What a channel targets and what its sampler's output holds. Node 1 rests
\* at translation (0,0,0) and has one morph target; node 2 rests at (5,0,0)
\* and has two; node 3 has no mesh. A weights output is a SCALAR accessor
\* holding one value per morph target and keyframe.
ChannelOptions ==
    { [node |-> 1, path |-> "translation", size |-> 3, output |-> TRUE, out |-> o] :
        o \in { <<0, 0, 0, 0, 0, 0>>, <<0, 0, 1>>, <<0, 0, 2, 0, 0, 2>>,
                <<0, 0, 0, 5, 0, 0>>, <<>> } }
    \cup
    { [node |-> 1, path |-> "translation", size |-> 3, output |-> FALSE, out |-> <<>>] }
    \cup
    { [node |-> 2, path |-> "translation", size |-> 3, output |-> TRUE, out |-> o] :
        o \in { <<0, 0, 0, 0, 0, 0>>, <<5, 0, 0>>, <<0, 0, 0, 5, 0, 0>> } }
    \cup
    { [node |-> 2, path |-> "weights", size |-> 1, output |-> TRUE, out |-> o] :
        o \in { <<0, 0>>, <<0, 0, 0, 5>>, <<1, 0, 1, 2>> } }
    \cup
    { [node |-> 1, path |-> "weights", size |-> 1, output |-> TRUE, out |-> o] :
        o \in { <<0, 0>> } }
    \cup
    { [node |-> 3, path |-> "weights", size |-> 1, output |-> TRUE, out |-> o] :
        o \in { <<0, 0>> } }

\* The second channel of the first animation may reference the first
\* channel's sampler instead of its own.
AnimInit ==
    \E opts \in [1..(MaxAnims + 1) -> ChannelOptions], shared \in BOOLEAN :
        /\ shared => opts[2].size = opts[1].size
        /\ channels =
              [n \in 1..(MaxAnims + 1) |->
                  [ id |-> n, anim |-> IF n <= 2 THEN 1 ELSE n - 1,
                    node |-> opts[n].node, path |-> opts[n].path,
                    sampler |-> IF n = 2 /\ shared THEN 1 ELSE n ]]
        /\ samplers =
              [n \in 1..(MaxAnims + 1) |-> [ output |-> opts[n].output, out |-> opts[n].out,
                                             size |-> opts[n].size ]]
        /\ disposed = {}
        /\ channels0 = channels
        /\ counts = [removed |-> 0, kept |-> 0]
        /\ aruns = 0
        /\ GeomIdle /\ WeightIdle /\ PipeIdle /\ InitIdle

\* document.transform(removeStaticTracksWithBake()), once or twice.
RunRemoveStatic ==
    /\ aruns < 2
    /\ LET r == removeStaticTracksWithBake(channels, samplers, disposed, TRACK_TOLERANCE)
       IN /\ channels' = r.channels
          /\ disposed' = r.disposed
          /\ counts' = r.counts
    /\ aruns' = aruns + 1
    /\ UNCHANGED <<samplers, channels0, geomVars, weightVars, pipeVars, initVars>>

AnimNext == RunRemoveStatic

SpecAnim == AnimInit /\ [][AnimNext]_vars


(***************************************************************************)
(* compress: src/unnamed/part_009 780-1004, withTempDir: part_007 77-86    *)
(*                                                                         *)
(* One call of compress, one await per step. process.env.DEBUG_RAW and     *)
(* DEBUG_CLEAN are unset.                                                  *)
(***************************************************************************)

\* The timeout, in clock ticks.
GLTFPACK_TIMEOUT_MS == 2

\* Lines 567-641: the flag lists.
PRESETS ==
    [ default |->
        [ skinned |-> <<"-vp", "20", "-kn">>,
          static |-> <<"-vp", "16">> ],
      balanced |->
        [ skinned |-> <<"-vp", "20", "-kn", "-at", "14", "-ar", "10", "-as", "14", "-af", "24">>,
          static |-> <<"-vp", "16", "-at", "14", "-ar", "10", "-as", "14", "-af", "24">> ],
      aggressive |->
        [ skinned |-> <<"-vp", "20", "-kn", "-at", "12", "-ar", "8", "-as", "12", "-af", "15">>,
          static |-> <<"-vp", "14", "-at", "12", "-ar", "8", "-as", "12", "-af", "15">> ],
      max |->
        [ skinned |-> <<"-cz", "-vp", "14", "-at", "12", "-ar", "8", "-as", "12", "-af", "15",
                        "-si", "0.95", "-slb">>,
          static |-> <<"-cz", "-vp", "14", "-at", "12", "-ar", "8", "-as", "12", "-af", "15",
                       "-si", "0.95", "-slb">> ] ]

\* Lines 942-956: the command line.
GltfpackArgs(preset, skinned) ==
    LET presetFlags == IF skinned THEN PRESETS[preset].skinned ELSE PRESETS[preset].static
        hasCompressFlag == \E n \in 1..Len(presetFlags) : presetFlags[n] \in {"-cz", "-c"}
    IN <<"gltfpack", "-i", "clean.glb", "-o", "compressed.glb">>
           \o (IF hasCompressFlag THEN <<>> ELSE <<"-cc">>)
           \o <<"-tc">> \o presetFlags

\* Lines 817-837.
CleanupTransforms(skinned) ==
    <<"analyzeMeshComplexity", "dedup", "prune", "removeUnusedUVs">>
        \o (IF ~skinned THEN <<"flatten", "join", "weld">> ELSE <<>>)

\* The geometry phase without its guard.
GeometryTransformsUnguarded(skinned) ==
    <<"mergeByDistance", "removeDegenerateFaces", "prune", "decimateBloatedMeshes">>

\* Lines 842-850.
GeometryTransforms(skinned) ==
    IF ~skinned
    THEN <<"mergeByDistance", "removeDegenerateFaces", "prune", "decimateBloatedMeshes">>
    ELSE <<>>

\* Lines 853-860.
GpuTransforms(skinned) ==
    IF ~skinned THEN <<"instance", "reorder", "sparse">> ELSE <<"instance", "sparse">>

\* The animation phase with normalizeWeights for every document.
AnimTransformsAlwaysNormalize(skinned) ==
    <<"resample", "removeStaticTracksWithBake", "normalizeWeights">>

\* Lines 864-870.
AnimTransforms(skinned) ==
    <<"resample", "removeStaticTracksWithBake">>
        \o (IF skinned THEN <<"normalizeWeights">> ELSE <<>>)

\* A final cleanup that also simplifies under the max preset.
FinalTransformsByPreset(simplify) ==
    <<"prune">> \o (IF simplify \/ options.preset = "max" THEN <<"simplify">> ELSE <<>>)

\* A final cleanup that compresses the textures once more.
FinalTransformsWithTexture(simplify) ==
    <<"textureCompress", "prune">> \o (IF simplify THEN <<"simplify">> ELSE <<>>)

\* Lines 883-895.
FinalTransforms(simplify) ==
    <<"prune">> \o (IF simplify THEN <<"simplify">> ELSE <<>>)

\* A fallback that prunes the document before encoding it.
MeshoptTransformsAfterPrune(skinned) ==
    IF skinned THEN <<"prune", "meshopt">> ELSE <<"prune", "quantize", "meshopt">>

\* The fallback with quantize for every document.
MeshoptTransformsAlwaysQuantize(skinned) == <<"quantize", "meshopt">>

\* Lines 992-1000.
MeshoptTransforms(skinned) ==
    IF skinned THEN <<"meshopt">> ELSE <<"quantize", "meshopt">>

\* Line 973.
GltfpackResult == [buffer |-> "compressed.glb", method |-> "gltfpack"]

\* The fallback's result under the other backend's name.
MeshoptResultAsGltfpack == [buffer |-> "writeBinary", method |-> "gltfpack"]

\* Line 1003.
MeshoptResult == [buffer |-> "writeBinary", method |-> "meshopt"]

\* Lines 784-787: log(msg) hands every message to options.onLog, which
\* handleCompressStream makes send('log', ...) (part_005 line 308).
log(evts, opts, msgs) ==
    IF opts.onLog THEN evts \o [k \in 1..Len(msgs) |-> <<"log", msgs[k]>>] ELSE evts

PipeInit ==
    \E preset \in {"default", "balanced", "aggressive", "max"},
       simplify \in BOOLEAN, skinned \in BOOLEAN :
        /\ pc = "init"
        /\ options = [preset |-> preset, simplify |-> simplify, onLog |-> FALSE]
        /\ skins = [input |-> skinned, now |-> skinned]
        /\ hasGltfpack = FALSE /\ hasSkins = FALSE /\ calls = <<>>
        /\ tempDir = "none" /\ proc = NoProcess /\ timer = "unset" /\ elapsed = 0
        /\ external = NoExternal /\ result = NoResult /\ thrownAt = "none"
        /\ stream = "none" /\ events = <<>>
        /\ GeomIdle /\ WeightIdle /\ AnimIdle /\ InitIdle

\* Line 789 with 707-743: await init(); doInit probes for the binary.
AwaitInit ==
    /\ pc = "init"
    /\ \E found \in BOOLEAN : hasGltfpack' = found
    /\ pc' = "parse"
    /\ UNCHANGED <<options, skins, hasSkins, calls, tempDir, proc, timer, elapsed,
                   external, result, thrownAt, stream, events,
                   geomVars, weightVars, animVars, initVars>>

\* The call goes on whether or not the input parsed.
AfterParseIgnoringError(parsed) == "strip"

\* Lines 792-798: the catch block throws, which ends the call.
AfterParse(parsed) == IF parsed THEN "strip" ELSE "threw"

\* Lines 791-798: io.readBinary(input); a parse error is rethrown.
Parse ==
    /\ pc = "parse"
    /\ calls' = Append(calls, "readBinary")
    /\ \E parsed \in BOOLEAN :
          /\ pc' = AfterParse(parsed)
          /\ thrownAt' = IF parsed THEN thrownAt ELSE "parse"
    /\ UNCHANGED <<options, skins, hasGltfpack, hasSkins, tempDir, proc, timer, elapsed,
                   external, result, stream, events,
                   geomVars, weightVars, animVars, initVars>>

\* Lines 810-813: stripCompressionExtensions, then hasSkins is computed.
Strip ==
    /\ pc = "strip"
    /\ calls' = Append(calls, "stripCompressionExtensions")
    /\ hasSkins' = skins.now
    /\ pc' = "cleanup"
    /\ UNCHANGED <<options, skins, hasGltfpack, tempDir, proc, timer, elapsed,
                   external, result, thrownAt, stream, events,
                   geomVars, weightVars, animVars, initVars>>

\* Lines 817-839. prune() may remove skins that nothing uses.
Cleanup ==
    /\ pc = "cleanup"
    /\ calls' = calls \o CleanupTransforms(hasSkins)
    /\ events' = log(events, options,
                      IF hasSkins THEN <<"Skinned model detected">> ELSE <<>>)
    /\ \E kept \in BOOLEAN : skins' = [skins EXCEPT !.now = @ /\ kept]
    /\ pc' = "geometry"
    /\ UNCHANGED <<options, hasGltfpack, hasSkins, tempDir, proc, timer, elapsed,
                   external, result, thrownAt, stream,
                   geomVars, weightVars, animVars, initVars>>

\* Lines 841-850.
Geometry ==
    /\ pc = "geometry"
    /\ calls' = calls \o GeometryTransforms(hasSkins)
    /\ pc' = "gpu"
    /\ UNCHANGED <<options, skins, hasGltfpack, hasSkins, tempDir, proc, timer, elapsed,
                   external, result, thrownAt, stream, events,
                   geomVars, weightVars, animVars, initVars>>

\* Lines 852-861.
Gpu ==
    /\ pc = "gpu"
    /\ calls' = calls \o GpuTransforms(hasSkins)
    /\ pc' = "animation"
    /\ UNCHANGED <<options, skins, hasGltfpack, hasSkins, tempDir, proc, timer, elapsed,
                   external, result, thrownAt, stream, events,
                   geomVars, weightVars, animVars, initVars>>

\* Lines 863-871.
Animation ==
    /\ pc = "animation"
    /\ calls' = calls \o AnimTransforms(hasSkins)
    /\ pc' = "texture"
    /\ UNCHANGED <<options, skins, hasGltfpack, hasSkins, tempDir, proc, timer, elapsed,
                   external, result, thrownAt, stream, events,
                   geomVars, weightVars, animVars, initVars>>

\* Lines 873-880.
Texture ==
    /\ pc = "texture"
    /\ calls' = Append(calls, "textureCompress")
    /\ pc' = "final"
    /\ UNCHANGED <<options, skins, hasGltfpack, hasSkins, tempDir, proc, timer, elapsed,
                   external, result, thrownAt, stream, events,
                   geomVars, weightVars, animVars, initVars>>

\* Lines 882-895: the final prune and the optional simplify.
Final ==
    /\ pc = "final"
    /\ calls' = calls \o FinalTransforms(options.simplify)
    /\ events' = log(events, options,
                      IF options.simplify THEN <<"User simplify">> ELSE <<>>)
    /\ pc' = "serialize"
    /\ UNCHANGED <<options, skins, hasGltfpack, hasSkins, tempDir, proc, timer, elapsed,
                   external, result, thrownAt, stream,
                   geomVars, weightVars, animVars, initVars>>

\* Lines 897-911 and 918: io.writeBinary(document), then the backend choice.
Serialize ==
    /\ pc = "serialize"
    /\ calls' = Append(calls, "writeBinary")
    /\ events' = log(events, options,
                      <<"Clean GLB">> \o (IF hasGltfpack THEN <<"Running gltfpack">> ELSE <<>>))
    /\ pc' = IF hasGltfpack THEN "mkdtemp" ELSE "fallback"
    /\ UNCHANGED <<options, skins, hasGltfpack, hasSkins, tempDir, proc, timer, elapsed,
                   external, result, thrownAt, stream,
                   geomVars, weightVars, animVars, initVars>>

\* part_007 line 80: mkdtemp, outside every try block.
Mkdtemp ==
    /\ pc = "mkdtemp"
    /\ calls' = Append(calls, "mkdtemp")
    /\ \E created \in BOOLEAN :
          IF created
          THEN tempDir' = "present" /\ pc' = "write" /\ UNCHANGED <<external, thrownAt>>
          ELSE /\ external' = [external EXCEPT !.failure = "mkdtemp"]
               /\ thrownAt' = "mkdtemp" /\ pc' = "threw" /\ UNCHANGED tempDir
    /\ UNCHANGED <<options, skins, hasGltfpack, hasSkins, proc, timer, elapsed,
                   result, stream, events,
                   geomVars, weightVars, animVars, initVars>>

\* Line 941 (974-977 on failure): Bun.write(inputPath, cleanBuffer).
WriteInput ==
    /\ pc = "write"
    /\ calls' = Append(calls, "Bun.write")
    /\ \E written \in BOOLEAN :
          IF written THEN pc' = "spawn" /\ UNCHANGED external
          ELSE external' = [value |-> "null", failure |-> "write"] /\ pc' = "rm"
    /\ UNCHANGED <<options, skins, hasGltfpack, hasSkins, tempDir, proc, timer, elapsed,
                   result, thrownAt, stream, events,
                   geomVars, weightVars, animVars, initVars>>

\* Lines 942-962 (974-977 on failure): Bun.spawn(args) and setTimeout. The
\* subprocess will exit with code 0, exit with another code, or not exit on
\* its own; it obeys the signal of proc.kill() or not.
Spawn ==
    /\ pc = "spawn"
    /\ calls' = Append(calls, "Bun.spawn")
    /\ \/ /\ \E will \in {"exit0", "exit1", "hang"}, obeys \in BOOLEAN :
                proc' = [ state |-> "running", will |-> will, obeys |-> obeys, code |-> 0,
                          args |-> GltfpackArgs(options.preset, hasSkins) ]
          /\ timer' = "armed"
          /\ pc' = "wait"
          /\ UNCHANGED external
       \/ /\ external' = [value |-> "null", failure |-> "spawn"]
          /\ pc' = "rm"
          /\ UNCHANGED <<proc, timer>>
    /\ UNCHANGED <<options, skins, hasGltfpack, hasSkins, tempDir, elapsed,
                   result, thrownAt, stream, events,
                   geomVars, weightVars, animVars, initVars>>

\* Time passes while compress awaits proc.exited. Once the timeout has
\* elapsed the timer is the only thing time can still trigger.
Tick ==
    /\ pc = "wait" /\ proc.state = "running"
    /\ elapsed < GLTFPACK_TIMEOUT_MS
    /\ elapsed' = elapsed + 1
    /\ UNCHANGED <<pc, options, skins, hasGltfpack, hasSkins, calls, tempDir, proc, timer,
                   external, result, thrownAt, stream, events,
                   geomVars, weightVars, animVars, initVars>>

\* The subprocess exits on its own.
ProcessExits ==
    /\ pc = "wait" /\ proc.state = "running"
    /\ proc.will \in {"exit0", "exit1"}
    /\ proc' = [proc EXCEPT !.state = "exited", !.code = IF proc.will = "exit0" THEN 0 ELSE 1]
    /\ UNCHANGED <<pc, options, skins, hasGltfpack, hasSkins, calls, tempDir, timer, elapsed,
                   external, result, thrownAt, stream, events,
                   geomVars, weightVars, animVars, initVars>>

\* Line 962 with polyfills.ts 105-110: the timeout callback calls proc.kill(),
\* which sends SIGTERM; a subprocess that obeys it exits with a non-zero code.
TimerFires ==
    /\ pc = "wait" /\ timer = "armed"
    /\ elapsed = GLTFPACK_TIMEOUT_MS
    /\ timer' = "fired"
    /\ proc' = IF proc.state = "running" /\ proc.obeys
               THEN [proc EXCEPT !.state = "exited", !.code = 1] ELSE proc
    /\ UNCHANGED <<pc, options, skins, hasGltfpack, hasSkins, calls, tempDir, elapsed,
                   external, result, thrownAt, stream, events,
                   geomVars, weightVars, animVars, initVars>>

\* Lines 963-969 (974-977 on failure): proc.exited resolves, clearTimeout,
\* a non-zero exit code is an error.
AwaitExited ==
    /\ pc = "wait" /\ proc.state = "exited"
    /\ timer' = IF timer = "armed" THEN "cleared" ELSE timer
    /\ IF proc.code # 0
       THEN /\ external' = [ value |-> "null",
                             failure |-> IF timer = "fired" THEN "timeout" ELSE "exit" ]
            /\ pc' = "rm"
       ELSE pc' = "read" /\ UNCHANGED external
    /\ UNCHANGED <<options, skins, hasGltfpack, hasSkins, calls, tempDir, proc, elapsed,
                   result, thrownAt, stream, events,
                   geomVars, weightVars, animVars, initVars>>

\* Lines 971-973 (974-977 on failure): the output file is read.
ReadOutput ==
    /\ pc = "read"
    /\ calls' = Append(calls, "Bun.file")
    /\ \E present \in BOOLEAN :
          external' = IF present THEN [value |-> "result", failure |-> "none"]
                      ELSE [value |-> "null", failure |-> "read"]
    /\ pc' = "rm"
    /\ UNCHANGED <<options, skins, hasGltfpack, hasSkins, tempDir, proc, timer, elapsed,
                   result, thrownAt, stream, events,
                   geomVars, weightVars, animVars, initVars>>

\* The directory stays whatever rm does.
TempDirKept(removed) == "present"

\* part_007 line 84: rm(dir, { recursive: true, force: true }).
TempDirAfterRm(removed) == IF removed THEN "removed" ELSE "present"

\* part_007 lines 83-85, then part_009 lines 912-918: the finally block
\* removes the directory; its error replaces the callback's value.
RemoveTempDir ==
    /\ pc = "rm"
    /\ calls' = Append(calls, "rm")
    /\ \E removed \in BOOLEAN :
          /\ events' = log(events, options,
                            IF removed /\ external.value = "result"
                            THEN <<"gltfpack: size">> ELSE <<>>)
          /\ tempDir' = TempDirAfterRm(removed)
          /\ IF removed
             THEN /\ IF external.value = "result"
                     THEN result' = GltfpackResult /\ pc' = "done"
                     ELSE pc' = "fallback" /\ UNCHANGED result
                  /\ UNCHANGED thrownAt
             ELSE thrownAt' = "rm" /\ pc' = "threw" /\ UNCHANGED result
    /\ UNCHANGED <<options, skins, hasGltfpack, hasSkins, proc, timer, elapsed,
                   external, stream,
                   geomVars, weightVars, animVars, initVars>>

\* Lines 918-921 with 988-1004: compressWithMeshopt.
Fallback ==
    /\ pc = "fallback"
    /\ calls' = calls \o MeshoptTransforms(hasSkins) \o <<"writeBinary">>
    /\ \E encoded \in BOOLEAN :
          /\ events' = log(events, options,
                            <<"Running meshopt fallback">>
                                \o (IF encoded THEN <<"meshopt: size">> ELSE <<>>))
          /\ IF encoded THEN result' = MeshoptResult /\ pc' = "done" /\ UNCHANGED thrownAt
             ELSE thrownAt' = "fallback" /\ pc' = "threw" /\ UNCHANGED result
    /\ UNCHANGED <<options, skins, hasGltfpack, hasSkins, tempDir, proc, timer, elapsed,
                   external, stream,
                   geomVars, weightVars, animVars, initVars>>

PipeNext ==
    \/ AwaitInit \/ Parse \/ Strip \/ Cleanup \/ Geometry \/ Gpu \/ Animation
    \/ Texture \/ Final \/ Serialize
    \/ Mkdtemp \/ WriteInput \/ Spawn \/ Tick \/ ProcessExits \/ TimerFires
    \/ AwaitExited \/ ReadOutput \/ RemoveTempDir \/ Fallback

SpecPipe == PipeInit /\ [][PipeNext]_vars

\* The event loop runs whatever can run.
FairSpecPipe == PipeInit /\ [][PipeNext]_vars /\ WF_vars(PipeNext)


(***************************************************************************)
(* handleCompressStream: src/unnamed/part_005 281-354                      *)
(*                                                                         *)
(* The client reads the stream to its end.                                 *)
(***************************************************************************)

\* Lines 324-339: the result event when compress returned, the error event
\* when it threw.
TerminalEvent(threw) ==
    IF threw THEN <<"error", "COMPRESSION_FAILED">> ELSE <<"result", "base64">>

\* A POST /compress-stream request with its preset and simplify parameters.
StreamInit ==
    \E preset \in {"default", "balanced", "aggressive", "max"},
       simplify \in BOOLEAN, skinned \in BOOLEAN :
        /\ pc = "request"
        /\ options = [preset |-> preset, simplify |-> simplify, onLog |-> FALSE]
        /\ skins = [input |-> skinned, now |-> skinned]
        /\ hasGltfpack = FALSE /\ hasSkins = FALSE /\ calls = <<>>
        /\ tempDir = "none" /\ proc = NoProcess /\ timer = "unset" /\ elapsed = 0
        /\ external = NoExternal /\ result = NoResult /\ thrownAt = "none"
        /\ stream = "none" /\ events = <<>>
        /\ GeomIdle /\ WeightIdle /\ AnimIdle /\ InitIdle

\* Lines 286-287 with parseCompressRequest (95-181): a request that is not
\* multipart, has no file, is too large or has no GLB magic is answered with
\* an error response and gets no stream.
RejectRequest ==
    /\ pc = "request"
    /\ pc' = "rejected"
    /\ UNCHANGED <<options, skins, hasGltfpack, hasSkins, calls, tempDir, proc, timer,
                   elapsed, external, result, thrownAt, stream, events,
                   geomVars, weightVars, animVars, initVars>>

\* Lines 286-309: the request is accepted; the stream starts, sends its first
\* log event and calls compress with an onLog callback.
AcceptRequest ==
    /\ pc = "request"
    /\ stream' = "open"
    /\ events' = << <<"log", "Received">> >>
    /\ options' = [options EXCEPT !.onLog = TRUE]
    /\ pc' = "init"
    /\ UNCHANGED <<skins, hasGltfpack, hasSkins, calls, tempDir, proc, timer,
                   elapsed, external, result, thrownAt,
                   geomVars, weightVars, animVars, initVars>>

\* Lines 305-341: compress has returned or thrown. On a return the Done log
\* is sent and the buffer is encoded as base64; then the terminal event is
\* sent and controller.close() is called, with no await in between.
Respond ==
    /\ stream = "open"
    /\ pc \in {"done", "threw"}
    /\ events' = events
                      \o (IF pc = "done" THEN << <<"log", "Done">> >> ELSE <<>>)
                      \o << TerminalEvent(pc = "threw") >>
    /\ stream' = "closed"
    /\ UNCHANGED <<pc, options, skins, hasGltfpack, hasSkins, calls, tempDir, proc, timer,
                   elapsed, external, result, thrownAt,
                   geomVars, weightVars, animVars, initVars>>

StreamNext == RejectRequest \/ AcceptRequest \/ PipeNext \/ Respond

SpecStream == StreamInit /\ [][StreamNext]_vars

\* The event loop runs whatever can run.
FairSpecStream == StreamInit /\ [][StreamNext]_vars /\ WF_vars(StreamNext)

(***************************************************************************)
(* init / doInit: src/unnamed/part_009 683-743, and the calls that await   *)
(* it (699-701, 789-793)                                                   *)
(***************************************************************************)

\* Callers that may have a call pending at the same time.
MaxCallers == 2

\* Calls made in one run.
MaxCalls == 3

\* A call that awaits the promise before doInit has run to its end goes on
\* as soon as the module is loaded.
initPromiseResolvedAtOnce(p) == p \notin {"unloaded", "exited"}

\* Lines 687-701: initPromise resolves when doInit has run to its end.
initPromiseResolved(p) == p = "done"

InitInit ==
    /\ initPc = "unloaded" /\ doInitRuns = 0 /\ ioReady = FALSE
    /\ callers = [c \in 1..MaxCallers |-> [kind |-> "none", pc |-> "idle", io |-> FALSE]]
    /\ ncalls = 0
    /\ GeomIdle /\ WeightIdle /\ AnimIdle /\ PipeIdle

\* Line 687: the module is evaluated, which calls doInit() once; doInit runs
\* to its first await.
LoadModule ==
    /\ initPc = "unloaded"
    /\ doInitRuns' = doInitRuns + 1
    /\ initPc' = "meshopt"
    /\ UNCHANGED <<ioReady, callers, ncalls, pipeVars, geomVars, weightVars, animVars>>

\* Lines 708-717 (687-690 on failure): the Meshopt modules are ready and
\* doInit awaits the Draco modules; a rejection ends the process.
MeshoptReady ==
    /\ initPc = "meshopt"
    /\ \E ready \in BOOLEAN : initPc' = IF ready THEN "draco" ELSE "exited"
    /\ UNCHANGED <<doInitRuns, ioReady, callers, ncalls, pipeVars,
                   geomVars, weightVars, animVars>>

\* Lines 714-734 (687-690 on failure): the Draco modules are created, io is
\* assigned, and gltfpack is looked up; when it is found doInit awaits its
\* version.
DracoReady ==
    /\ initPc = "draco"
    /\ \E created \in BOOLEAN, found \in BOOLEAN :
          IF created
          THEN ioReady' = TRUE /\ initPc' = IF found THEN "version" ELSE "done"
          ELSE initPc' = "exited" /\ UNCHANGED ioReady
    /\ UNCHANGED <<doInitRuns, callers, ncalls, pipeVars, geomVars, weightVars, animVars>>

\* Lines 733-742: the version command ends; when it failed the flag stays
\* false.
VersionRead ==
    /\ initPc = "version"
    /\ \E ran \in BOOLEAN : hasGltfpack' = ran
    /\ initPc' = "done"
    /\ UNCHANGED <<doInitRuns, ioReady, callers, ncalls, callVars,
                   geomVars, weightVars, animVars>>

\* Lines 699-701 and 789: a caller calls init() or compress(), which awaits
\* initPromise. The module is loaded before anything can call it.
Call(c) ==
    /\ initPc \notin {"unloaded", "exited"}
    /\ callers[c].pc = "idle"
    /\ ncalls < MaxCalls
    /\ \E kind \in {"init", "compress"} :
          callers' = [callers EXCEPT ![c] = [kind |-> kind, pc |-> "awaiting", io |-> FALSE]]
    /\ ncalls' = ncalls + 1
    /\ UNCHANGED <<initPc, doInitRuns, ioReady, pipeVars, geomVars, weightVars, animVars>>

\* Lines 700 and 789-793: the awaited promise has resolved; init() returns,
\* compress() reads its input through io.
Resume(c) ==
    /\ callers[c].pc = "awaiting"
    /\ initPromiseResolved(initPc)
    /\ callers' = [callers EXCEPT ![c] =
                      IF callers[c].kind = "init" THEN [@ EXCEPT !.pc = "idle"]
                      ELSE [@ EXCEPT !.pc = "read", !.io = ioReady]]
    /\ UNCHANGED <<initPc, doInitRuns, ioReady, ncalls, pipeVars,
                   geomVars, weightVars, animVars>>

\* Lines 800-922: the rest of the compress call.
Return(c) ==
    /\ initPc # "exited"
    /\ callers[c].pc = "read"
    /\ callers' = [callers EXCEPT ![c].pc = "idle"]
    /\ UNCHANGED <<initPc, doInitRuns, ioReady, ncalls, pipeVars,
                   geomVars, weightVars, animVars>>

InitNext ==
    \/ LoadModule \/ MeshoptReady \/ DracoReady \/ VersionRead
    \/ \E c \in 1..MaxCallers : Call(c) \/ Resume(c) \/ Return(c)

SpecInit == InitInit /\ [][InitNext]_vars

(***************************************************************************)
(* Claims about the geometry transforms                                    *)
(***************************************************************************)

Merge1 == << <<"merge", MERGE_TOLERANCE>> >>

Merge2 == << <<"merge", MERGE_TOLERANCE>>, <<"merge", MERGE_TOLERANCE>> >>

Count(a, id) == Len(a[id].arr) \div a[id].size

PositionOf(prim) == prim.sem[1][2]

SameCounts(a, prim) ==
    \A k \in 1..Len(prim.sem) : Count(a, prim.sem[k][2]) = Count(a, PositionOf(prim))

IndicesValid(a, prim) ==
    \A n \in 1..Len(a[prim.indices].arr) :
        a[prim.indices].arr[n] < Count(a, PositionOf(prim))

PrimitiveValid(a, prim) == SameCounts(a, prim) /\ IndicesValid(a, prim)

\* Every generated document is valid when loaded.
LoadedValid == \A n \in 1..Len(prims) : PrimitiveValid(acc0, prims[n])

\* C1: after mergeByDistance returns on a document whose primitives were
\* valid, every primitive (sharing accessors or not) has all its indices below
\* its vertex count, one vertex count for all its attributes, and no more
\* vertices than before.
C1_MergeKeepsPrimitivesValid ==
    (hist = Merge1 /\ ~thrown /\ LoadedValid) =>
        \A n \in 1..Len(prims) :
            /\ PrimitiveValid(acc, prims[n])
            /\ Count(acc, PositionOf(prims[n])) <= Count(acc0, PositionOf(prims[n]))

\* C2: a second mergeByDistance leaves every index buffer and every vertex
\* attribute buffer as the first one left them.
C2_MergeIdempotent == (hist = Merge2) => (acc = prev)

LastOp == hist[Len(hist)]

Triangles(a, prim) == 0..((Len(a[prim.indices].arr) \div 3) - 1)

Corner(a, prim, t, k) == at(a[prim.indices].arr, 3 * t + k)

\* C3: after removeDegenerateFaces(minArea) returns, no triangle left in the
\* index buffer of a TRIANGLES primitive has two equal indices, and none has
\* an area below minArea (4 * area^2 >= (2 * minArea)^2).
C3_NoDegenerateFaceSurvives ==
    (hist # <<>> /\ LastOp[1] = "clean" /\ ~thrown) =>
        \A n \in 1..Len(prims) :
            prims[n].mode = TRIANGLES =>
                \A t \in Triangles(acc, prims[n]) :
                    LET i0 == Corner(acc, prims[n], t, 0)
                        i1 == Corner(acc, prims[n], t, 1)
                        i2 == Corner(acc, prims[n], t, 2)
                        positions == acc[PositionOf(prims[n])].arr
                    IN /\ i0 # i1 /\ i1 # i2 /\ i0 # i2
                       /\ CrossSq(Vertex(positions, i0), Vertex(positions, i1),
                                  Vertex(positions, i2)) >= LastOp[2] * LastOp[2]

\* A run that removed one triangle of positive area and kept another.
C3_Witness ==
    /\ hist # <<>> /\ LastOp[1] = "clean" /\ ~thrown
    /\ \E n \in 1..Len(prims) :
        /\ prims[n].mode = TRIANGLES
        /\ Len(acc[prims[n].indices].arr) = 3
        /\ Len(prev[prims[n].indices].arr) = 6
        /\ \E t \in Triangles(prev, prims[n]) :
            LET i0 == Corner(prev, prims[n], t, 0)
                i1 == Corner(prev, prims[n], t, 1)
                i2 == Corner(prev, prims[n], t, 2)
                positions == prev[PositionOf(prims[n])].arr
            IN /\ i0 # i1 /\ i1 # i2 /\ i0 # i2
               /\ CrossSq(Vertex(positions, i0), Vertex(positions, i1),
                          Vertex(positions, i2)) \in 1..(LastOp[2] * LastOp[2] - 1)

(***************************************************************************)
(* Claims about normalizeWeights                                           *)
(***************************************************************************)

VertexSum(a, id, i) == ComponentSum(a[id].arr, i, a[id].size, 0)

\* C4: after normalizeWeights, every vertex of a primitive with WEIGHTS_0
\* whose components had a positive sum has stored components that sum to 1.0
\* within 1e-6, whatever the component type of the weight buffer.
C4_WeightsSumToOne ==
    (wruns = 1) =>
        \A n \in 1..Len(wprims) :
            wprims[n] # "none" =>
                \A i \in 0..((Len(wacc[wprims[n]].arr) \div wacc[wprims[n]].size) - 1) :
                    VertexSum(wacc0, wprims[n], i) > 0 =>
                        Abs(VertexSum(wacc, wprims[n], i) - One(wacc[wprims[n]].ctype))
                            <= Eps(wacc[wprims[n]].ctype)

\* The same statement for float storage only.
C4_FloatWeightsSumToOne ==
    (wruns = 1 /\ wacc["W1"].ctype = "f32") => C4_WeightsSumToOne

\* Vertex i of WEIGHTS_0 accessor id holds its original component values.
VertexKept(id, i) ==
    \A j \in 0..(wacc[id].size - 1) :
        at(wacc[id].arr, i * wacc[id].size + j) = at(wacc0[id].arr, i * wacc0[id].size + j)

\* C18: normalizeWeights leaves a vertex exactly as it was when the sum of
\* its WEIGHTS_0 components is not positive (all-zero weights are not divided
\* by their sum) and when the sum is within 1e-6 of 1.
C18_ZeroAndUnitSumsAreKept ==
    (wruns >= 1) =>
        \A n \in 1..Len(wprims) :
            wprims[n] # "none" =>
                \A i \in 0..((Len(wacc0[wprims[n]].arr) \div wacc0[wprims[n]].size) - 1) :
                    LET sum == VertexSum(wacc0, wprims[n], i)
                        ctype == wacc0[wprims[n]].ctype
                    IN (sum <= 0 \/ Abs(sum - One(ctype)) <= Eps(ctype))
                           => VertexKept(wprims[n], i)

\* A run over a buffer with an all-zero vertex, which is kept.
C18_Witness ==
    /\ wruns >= 1
    /\ \E i \in 0..((Len(wacc0["W1"].arr) \div wacc0["W1"].size) - 1) :
          VertexSum(wacc0, "W1", i) = 0 /\ VertexKept("W1", i)

\* The pairs of vertices of the primitive that are at the same position.
SamePositionPairs(a, prim) ==
    LET positions == a[PositionOf(prim)].arr
        verts == 0..(Count(a, PositionOf(prim)) - 1)
    IN {p \in verts \X verts : p[1] < p[2] /\ Vertex(positions, p[1]) = Vertex(positions, p[2])}

\* The pairs of vertices of the primitive that mergeByDistance gives one key.
SameKeyPairs(a, prim) ==
    LET positions == a[PositionOf(prim)].arr
        verts == 0..(Count(a, PositionOf(prim)) - 1)
    IN {p \in verts \X verts :
           /\ p[1] < p[2]
           /\ VertexKey(positions, p[1], MERGE_TOLERANCE)
                  = VertexKey(positions, p[2], MERGE_TOLERANCE)}

\* A triangle that removeDegenerateFaces(minArea) drops.
Degenerate(a, prim, t, minArea2) ==
    LET i0 == Corner(a, prim, t, 0)
        i1 == Corner(a, prim, t, 1)
        i2 == Corner(a, prim, t, 2)
    IN \/ i0 = i1 \/ i1 = i2 \/ i0 = i2
       \/ AreaBelow(a[PositionOf(prim)].arr, i0, i1, i2, minArea2)

\* The loaded primitive has exactly two vertices at the same position and
\* exactly one degenerate triangle.
TwoDuplicatesOneDegenerate(prim, minArea2) ==
    /\ prim.mode = TRIANGLES
    /\ Cardinality(SamePositionPairs(acc0, prim)) = 1
    /\ Cardinality({t \in Triangles(acc0, prim) : Degenerate(acc0, prim, t, minArea2)}) = 1

\* The primitive's accessors are its own: no other primitive and no second
\* semantic names them.
OwnAccessors(n) ==
    /\ \A k, l \in 1..Len(prims[n].sem) : k # l => prims[n].sem[k][2] # prims[n].sem[l][2]
    /\ \A m \in 1..Len(prims) : m # n =>
           /\ prims[m].indices # prims[n].indices
           /\ \A k \in 1..Len(prims[n].sem), l \in 1..Len(prims[m].sem) :
                  prims[n].sem[k][2] # prims[m].sem[l][2]

MergedThenCleaned ==
    Len(hist) = 2 /\ hist[1][1] = "merge" /\ hist[2][1] = "clean"

OneVertexOneTriangleLess(prim) ==
    /\ Count(acc, PositionOf(prim)) = Count(acc0, PositionOf(prim)) - 1
    /\ Len(acc[prim.indices].arr) = Len(acc0[prim.indices].arr) - 3

\* C14: the geometry phase runs mergeByDistance, then removeDegenerateFaces;
\* for a primitive with exactly two vertices at the same position and one
\* degenerate triangle, neither throws, and afterwards the primitive has one
\* vertex less and one triangle less.
C14_MergeThenCleanDropsOneEach ==
    /\ (hist = Merge1 /\ thrown) =>
           \A n \in 1..Len(prims), m \in MinAreas2 : ~TwoDuplicatesOneDegenerate(prims[n], m)
    /\ MergedThenCleaned =>
           \A n \in 1..Len(prims) :
               TwoDuplicatesOneDegenerate(prims[n], LastOp[2]) =>
                   ~thrown /\ OneVertexOneTriangleLess(prims[n])

\* The statement of C14 for a primitive whose accessors are its own and whose
\* two duplicates are its only vertices with one key.
C14_HoldsForOwnAccessorsAndOneKeyPair ==
    MergedThenCleaned =>
        \A n \in 1..Len(prims) :
            (/\ TwoDuplicatesOneDegenerate(prims[n], LastOp[2])
             /\ OwnAccessors(n)
             /\ SameKeyPairs(acc0, prims[n]) = SamePositionPairs(acc0, prims[n]))
            => ~thrown /\ OneVertexOneTriangleLess(prims[n])

\* The statement of C14 for a primitive whose two duplicates are its only
\* vertices with one key, sharing accessors or not.
C14_OneKeyPair ==
    /\ (hist = Merge1 /\ thrown) =>
           \A n \in 1..Len(prims), m \in MinAreas2 :
               ~(/\ TwoDuplicatesOneDegenerate(prims[n], m)
                 /\ SameKeyPairs(acc0, prims[n]) = SamePositionPairs(acc0, prims[n]))
    /\ MergedThenCleaned =>
           \A n \in 1..Len(prims) :
               (/\ TwoDuplicatesOneDegenerate(prims[n], LastOp[2])
                /\ SameKeyPairs(acc0, prims[n]) = SamePositionPairs(acc0, prims[n]))
               => ~thrown /\ OneVertexOneTriangleLess(prims[n])

\* The quantized key of original vertex i of a position accessor.
KeyOf(pos, i) == VertexKey(acc0[pos].arr, i, MERGE_TOLERANCE)

\* The original vertices that are the first with their key, and for any
\* vertex the first-seen vertex with its key.
FirstSeen(pos) ==
    {i \in 0..(Count(acc0, pos) - 1) : \A j \in 0..(i - 1) : KeyOf(pos, j) # KeyOf(pos, i)}

Canonical(pos, i) == CHOOSE j \in FirstSeen(pos) : KeyOf(pos, j) = KeyOf(pos, i)

\* The position of a first-seen vertex among the first-seen vertices in
\* input order, and the first-seen vertex at a position.
Rank(pos, j) == Cardinality({k \in FirstSeen(pos) : k < j})

Kth(pos, k) == CHOOSE j \in FirstSeen(pos) : Rank(pos, j) = k

\* Primitive n after one mergeByDistance: every attribute holds the values of
\* the first-seen vertices in input order, and every index is the position
\* of the first-seen vertex of the key it referenced.
MergedAsSpecified(n) ==
    LET pos == PositionOf(prims[n])
        idx == prims[n].indices
    IN /\ \A s \in 1..Len(prims[n].sem) :
             LET id == prims[n].sem[s][2]
                 size == acc[id].size
             IN /\ Len(acc[id].arr) = size * Cardinality(FirstSeen(pos))
                /\ \A k \in 0..(Cardinality(FirstSeen(pos)) - 1), j \in 0..(size - 1) :
                       at(acc[id].arr, k * size + j)
                           = at(acc0[id].arr, Kth(pos, k) * size + j)
       /\ Len(acc[idx].arr) = Len(acc0[idx].arr)
       /\ \A m \in 1..Len(acc[idx].arr) :
              acc[idx].arr[m] = Rank(pos, Canonical(pos, acc0[idx].arr[m]))

\* C16: mergeByDistance maps every vertex to the first-seen vertex with the
\* same quantized key: output vertex k carries, for every attribute, the
\* values of the k-th first-seen vertex, in input order, and every index is
\* rewritten to the canonical position of the vertex it referenced.
C16_MergeGathersFirstSeen ==
    (hist = Merge1) => (~thrown /\ \A n \in 1..Len(prims) : MergedAsSpecified(n))

\* The statement of C16 for primitives that share no accessor.
C16_HoldsForOwnAccessors ==
    (hist = Merge1 /\ ~thrown) =>
        \A n \in 1..Len(prims) : OwnAccessors(n) => MergedAsSpecified(n)

\* C16 where a merge took place in a primitive that shares no accessor.
C16_Witness ==
    /\ hist = Merge1 /\ ~thrown
    /\ \E n \in 1..Len(prims) :
          /\ OwnAccessors(n) /\ MergedAsSpecified(n)
          /\ Cardinality(FirstSeen(PositionOf(prims[n]))) = 2
          /\ Count(acc0, PositionOf(prims[n])) > 2
          /\ 0 \notin FirstSeen(PositionOf(prims[n])) \/ 1 \notin FirstSeen(PositionOf(prims[n]))

\* A triangle of the primitive, before the last transform, with two equal
\* indices or an area below minArea.
Dropped(prim, t, minArea2) ==
    LET i0 == Corner(prev, prim, t, 0)
        i1 == Corner(prev, prim, t, 1)
        i2 == Corner(prev, prim, t, 2)
        positions == prev[PositionOf(prim)].arr
    IN \/ i0 = i1 \/ i1 = i2 \/ i0 = i2
       \/ CrossSq(Vertex(positions, i0), Vertex(positions, i1), Vertex(positions, i2))
              < minArea2 * minArea2

Kept(prim, minArea2) == {t \in Triangles(prev, prim) : ~Dropped(prim, t, minArea2)}

KthKept(prim, minArea2, k) ==
    CHOOSE t \in Kept(prim, minArea2) :
        Cardinality({u \in Kept(prim, minArea2) : u < t}) = k

\* The triangles of the primitive that are not degenerate, in their order
\* and with their index values.
Survivors(prim, minArea2) ==
    [m \in 1..(3 * Cardinality(Kept(prim, minArea2))) |->
        Corner(prev, prim, KthKept(prim, minArea2, (m - 1) \div 3), (m - 1) % 3)]

AttributesUnchanged(prim) ==
    \A s \in 1..Len(prim.sem) : acc[prim.sem[s][2]] = prev[prim.sem[s][2]]

\* C17: removeDegenerateFaces leaves every vertex attribute buffer unchanged
\* and every primitive that is not in triangle mode entirely unchanged; the
\* index buffer of a triangle-mode primitive afterwards holds exactly its
\* non-degenerate triangles in their original order with their original
\* index values, so it is unchanged when the primitive has none to drop.
C17_CleanOnlyDropsDegenerateTriples ==
    (hist # <<>> /\ LastOp[1] = "clean" /\ ~thrown) =>
        \A n \in 1..Len(prims) :
            /\ AttributesUnchanged(prims[n])
            /\ acc[prims[n].indices].arr =
                   IF prims[n].mode = TRIANGLES THEN Survivors(prims[n], LastOp[2])
                   ELSE prev[prims[n].indices].arr

\* The statement of C17 for primitives whose index accessor is their own.
C17_HoldsForOwnIndices ==
    (hist # <<>> /\ LastOp[1] = "clean" /\ ~thrown) =>
        \A n \in 1..Len(prims) :
            /\ AttributesUnchanged(prims[n])
            /\ (\A m \in 1..Len(prims) : m # n => prims[m].indices # prims[n].indices)
                   => acc[prims[n].indices].arr =
                          IF prims[n].mode = TRIANGLES THEN Survivors(prims[n], LastOp[2])
                          ELSE prev[prims[n].indices].arr

\* The primitive's input, before the last transform, holds an index that is
\* not below the vertex count, an index buffer that is not a whole number of
\* triangles, or an attribute buffer shorter than vertex count times
\* element size.
DanglingIndex(prim) ==
    \E m \in 1..Len(prev[prim.indices].arr) :
        prev[prim.indices].arr[m] >= Count(prev, PositionOf(prim))

PartialTriangle(prim) == Len(prev[prim.indices].arr) % 3 # 0

ShortAttribute(prim) ==
    \E s \in 1..Len(prim.sem) :
        Len(prev[prim.sem[s][2]].arr)
            < Count(prev, PositionOf(prim)) * prev[prim.sem[s][2]].size

\* The vertices that are the first with their key, before the last transform.
FirstSeenBefore(prim) ==
    LET positions == prev[PositionOf(prim)].arr
    IN {i \in 0..(Count(prev, PositionOf(prim)) - 1) :
           \A j \in 0..(i - 1) :
               VertexKey(positions, j, MERGE_TOLERANCE) # VertexKey(positions, i, MERGE_TOLERANCE)}

\* mergeByDistance has vertices to merge in the primitive, and so reads
\* every index and, of every attribute, every first-seen vertex; one of
\* these is not there.
MergeReadsUndefined(prim) ==
    /\ Cardinality(FirstSeenBefore(prim)) < Count(prev, PositionOf(prim))
    /\ \/ DanglingIndex(prim)
       \/ \E s \in 1..Len(prim.sem) : \E i \in FirstSeenBefore(prim) :
              (i + 1) * prev[prim.sem[s][2]].size > Len(prev[prim.sem[s][2]].arr)

\* removeDegenerateFaces reads the three indices of every triple and, when
\* they differ, their positions; one of these is not there.
CleanReadsUndefined(prim) ==
    /\ prim.mode = TRIANGLES
    /\ \/ PartialTriangle(prim)
       \/ \E t \in Triangles(prev, prim) :
              LET i0 == Corner(prev, prim, t, 0)
                  i1 == Corner(prev, prim, t, 1)
                  i2 == Corner(prev, prim, t, 2)
              IN /\ i0 # i1 /\ i1 # i2 /\ i0 # i2
                 /\ \E v \in {i0, i1, i2} : v >= Count(prev, PositionOf(prim))

ReadsUndefined(prim) ==
    IF LastOp[1] = "merge" THEN MergeReadsUndefined(prim) ELSE CleanReadsUndefined(prim)

\* C27 as stated: a transform whose input holds one of the three invariant
\* violations raises an error.
C27_EveryViolationRaises ==
    (hist # <<>>) =>
        ((DanglingIndex(prims[1]) \/ PartialTriangle(prims[1]) \/ ShortAttribute(prims[1]))
            => thrown)

\* C27: a transform raises an error exactly when it reads an element that
\* its input does not have; a transform that returns has written only
\* values it read from existing elements: its indices are below the vertex
\* count of the positions it read them against.
C27_UndefinedReadRaises ==
    (hist # <<>>) =>
        /\ thrown <=> ReadsUndefined(prims[1])
        /\ (~thrown /\ acc[prims[1].indices] # prev[prims[1].indices]) =>
               \A m \in 1..Len(acc[prims[1].indices].arr) :
                   acc[prims[1].indices].arr[m] < Count(prev, PositionOf(prims[1]))

\* mergeByDistance had duplicates to merge and met an index that is not
\* below the vertex count: it raised.
C27_Witness ==
    /\ hist = Merge1 /\ thrown
    /\ DanglingIndex(prims[1])
    /\ ~ShortAttribute(prims[1]) /\ ~PartialTriangle(prims[1])

\* The quantized key of the vertex that index position m of the primitive
\* references, in the accessors a; the index may name no vertex.
ReferencesVertex(a, prim, m) ==
    /\ m \in 1..Len(a[prim.indices].arr)
    /\ a[prim.indices].arr[m] \in 0..(Count(a, PositionOf(prim)) - 1)

ReferencedKey(a, prim, m) ==
    VertexKey(a[PositionOf(prim)].arr, a[prim.indices].arr[m], MERGE_TOLERANCE)

\* The primitive has as many indices as before, and every index position
\* references a vertex with the key of the vertex it referenced before.
KeepsReferencedKeys(prim) ==
    /\ Len(acc[prim.indices].arr) = Len(acc0[prim.indices].arr)
    /\ \A m \in 1..Len(acc0[prim.indices].arr) :
           /\ ReferencesVertex(acc, prim, m)
           /\ ReferencedKey(acc, prim, m) = ReferencedKey(acc0, prim, m)

\* C29: mergeByDistance never changes the number of indices of a primitive,
\* and for every index position the quantized position key of the vertex
\* referenced after the call equals that of the vertex referenced before.
C29_MergeKeepsReferencedKeys ==
    (hist = Merge1) => \A n \in 1..Len(prims) : KeepsReferencedKeys(prims[n])

\* The statement of C29 for primitives that share no accessor.
C29_HoldsForOwnAccessors ==
    (hist = Merge1 /\ ~thrown) =>
        \A n \in 1..Len(prims) : OwnAccessors(n) => KeepsReferencedKeys(prims[n])

\* The number of indices alone is kept in every document.
C29_IndexCountIsKept ==
    (hist = Merge1) =>
        \A n \in 1..Len(prims) :
            Len(acc[prims[n].indices].arr) = Len(acc0[prims[n].indices].arr)

(***************************************************************************)
(* Claims about removeStaticTracksWithBake                                 *)
(***************************************************************************)

\* The channels of the loaded document that target the key.
ChannelsOf(key) ==
    {n \in 1..Len(channels0) : TrackKey(channels0[n]) = key}

TargetedKeys == {TrackKey(channels0[n]) : n \in 1..Len(channels0)}

\* Whether the channel is still in the document.
Retained(id) == \E n \in 1..Len(channels) : channels[n].id = id

\* The number of components one keyframe of the channel has: three for a
\* translation, one per morph target for weights.
KeyframeWidth(ch) == Len(BaseValue(ch.node, ch.path))

\* The keyframes of a channel, as the animation plays them.
Keyframes(ch) ==
    LET out == samplers[ch.sampler].out
        width == KeyframeWidth(ch)
    IN [k \in 1..(Len(out) \div width) |-> SubSeq(out, (k - 1) * width + 1, k * width)]

HasKeyframes(ch) ==
    /\ samplers[ch.sampler].output
    /\ Len(samplers[ch.sampler].out) > 0
    /\ KeyframeWidth(ch) > 0
    /\ Len(samplers[ch.sampler].out) % KeyframeWidth(ch) = 0

\* A keyframe differs from the first by more than the tolerance.
Dynamic(ch) ==
    /\ HasKeyframes(ch)
    /\ \E k \in 1..Len(Keyframes(ch)) : \E j \in 1..KeyframeWidth(ch) :
           Abs(Keyframes(ch)[k][j] - Keyframes(ch)[1][j]) > TRACK_TOLERANCE

Static(ch) == HasKeyframes(ch) /\ ~Dynamic(ch)

\* Every channel of the key is static, with one constant value, the rest pose.
StaticAtRest(key) ==
    /\ ChannelsOf(key) # {}
    /\ \A n \in ChannelsOf(key) :
           /\ Static(channels0[n])
           /\ Keyframes(channels0[n])[1] = BaseValue(key[1], key[2])

\* C5: when every channel that targets (N, P), in every animation, is static,
\* all their constant values are equal and that value is N's rest value for
\* P, one run of removeStaticTracksWithBake removes the channel for (N, P)
\* from every animation.
C5_ConsensusAtRestIsRemoved ==
    (aruns = 1) =>
        \A key \in TargetedKeys :
            StaticAtRest(key) => \A n \in ChannelsOf(key) : ~Retained(channels0[n].id)

\* The statement of C5 for keys whose keyframes are as wide as the output
\* accessor's elements.
C5_HoldsWhenWidthIsElementSize ==
    (aruns = 1) =>
        \A key \in TargetedKeys :
            (/\ StaticAtRest(key)
             /\ \A n \in ChannelsOf(key) :
                    samplers[channels0[n].sampler].size = KeyframeWidth(channels0[n]))
            => \A n \in ChannelsOf(key) : ~Retained(channels0[n].id)

\* C6: when any channel for (N, P), in any animation, is dynamic, no channel
\* for (N, P) is removed from any animation.
C6_DynamicKeepsEveryChannel ==
    (aruns >= 1) =>
        \A key \in TargetedKeys :
            (\E n \in ChannelsOf(key) : Dynamic(channels0[n]))
            => \A n \in ChannelsOf(key) : Retained(channels0[n].id)

\* C6 witness: after a run, a translation key has a dynamic channel next to a
\* static channel that holds the rest value, and another key lost its channel.
C6_Witness ==
    /\ aruns = 1
    /\ \E key \in TargetedKeys :
          /\ key[2] = "translation"
          /\ \E n \in ChannelsOf(key) : Dynamic(channels0[n])
          /\ \E n \in ChannelsOf(key) :
                 /\ Static(channels0[n])
                 /\ Keyframes(channels0[n])[1] = BaseValue(key[1], key[2])
    /\ counts.removed > 0

\* A channel of the key was removed by the run.
Removed(key) == \E n \in ChannelsOf(key) : ~Retained(channels0[n].id)

\* The channels of the key that have keyframes, and the constant value of
\* one that is static.
Valued(key) == {n \in ChannelsOf(key) : HasKeyframes(channels0[n])}

StaticValueOf(n) == Keyframes(channels0[n])[1]

Within(value, other, tolerance) ==
    /\ Len(value) = Len(other)
    /\ \A j \in 1..Len(value) : Abs(value[j] - other[j]) <= tolerance

\* C19: channels of a (node, path) key are removed only if the node has a
\* rest value for the path, the static values of every two channels of the
\* key are within the tolerance of each other in every component, and each
\* of them is within the tolerance of the rest value.
C19_RemovalNeedsPairwiseConsensusAtRest ==
    (aruns = 1) =>
        \A key \in TargetedKeys :
            Removed(key) =>
                /\ HasBaseValue(key[1], key[2])
                /\ \A n, m \in Valued(key) :
                       Within(StaticValueOf(n), StaticValueOf(m), TRACK_TOLERANCE)
                /\ \A n \in Valued(key) :
                       Within(StaticValueOf(n), BaseValue(key[1], key[2]), TRACK_TOLERANCE)

\* What removal does need: a rest value, and one channel whose static value
\* is within the tolerance of the rest value and of every channel's value.
C19_RemovalNeedsConsensusWithOneChannel ==
    (aruns = 1) =>
        \A key \in TargetedKeys :
            Removed(key) =>
                /\ HasBaseValue(key[1], key[2])
                /\ \E r \in Valued(key) :
                       /\ \A n \in Valued(key) :
                              Within(StaticValueOf(n), StaticValueOf(r), TRACK_TOLERANCE)
                       /\ Within(BaseValue(key[1], key[2]), StaticValueOf(r), TRACK_TOLERANCE)

\* A key whose node has no rest value for the path keeps every channel.
C19_NoRestValueIsNeverRemoved ==
    (aruns >= 1) =>
        \A key \in TargetedKeys : ~HasBaseValue(key[1], key[2]) => ~Removed(key)

\* The channels of the loaded document that reference the sampler.
ReferencesTo(sampler) ==
    {n \in 1..Len(channels0) : channels0[n].sampler = sampler}

\* C20: a sampler is disposed only if no channel that is still in the
\* document references it, so no retained channel references a disposed
\* sampler; and a sampler all of whose referencing channels were removed,
\* several of them or one, is disposed with the last of them.
C20_SamplerDisposedWithLastChannel ==
    (aruns >= 1) =>
        /\ \A n \in 1..Len(channels) : channels[n].sampler \notin disposed
        /\ \A sampler \in 1..Len(samplers) :
               (sampler \in disposed) <=>
                   /\ ReferencesTo(sampler) # {}
                   /\ \A n \in ReferencesTo(sampler) : ~Retained(channels0[n].id)

\* A sampler shared by a removed channel and a retained channel is kept.
C20_Witness ==
    /\ aruns = 1
    /\ \E n, m \in 1..Len(channels0) :
          /\ n # m
          /\ channels0[n].sampler = channels0[m].sampler
          /\ ~Retained(channels0[n].id)
          /\ Retained(channels0[m].id)
          /\ channels0[n].sampler \notin disposed

\* The retained channels that Pass 1 analysed and classified as static.
RetainedPass1Static ==
    {n \in 1..Len(channels0) :
        /\ Retained(channels0[n].id)
        /\ Analysed(channels0[n], samplers, {})
        /\ TrackInfo(channels0[n], samplers, TRACK_TOLERANCE).isStatic}

KeyframeCount(ch) == Len(samplers[ch.sampler].out) \div samplers[ch.sampler].size

\* C21: the count of tracks kept for lack of consensus that Pass 3 reports
\* equals the number of retained channels that Pass 1 classified as static.
C21_KeptCountIsPass1Statics ==
    (aruns = 1) => counts.kept = Cardinality(RetainedPass1Static)

\* The count is of the retained Pass 1 statics with more than one keyframe.
C21_KeptCountSkipsSingleKeyframes ==
    (aruns = 1) =>
        counts.kept =
            Cardinality({n \in RetainedPass1Static : KeyframeCount(channels0[n]) > 1})

\* The channels the run disposed.
DisposedChannels == {n \in 1..Len(channels0) : ~Retained(channels0[n].id)}

\* Pass 1 analysed the channel and found every keyframe within the tolerance
\* of the first.
AnalysedStatic(ch) ==
    /\ Analysed(ch, samplers, {})
    /\ TrackInfo(ch, samplers, TRACK_TOLERANCE).isStatic

\* C28: every channel the run disposes was analysed in Pass 1 and found
\* static; a channel whose sampler has no output accessor or an empty output
\* array is never disposed, and never lets the channels that share its
\* (node, path) key be disposed.
C28_DisposedWereAnalysedStatic ==
    (aruns = 1) =>
        /\ \A n \in DisposedChannels : AnalysedStatic(channels0[n])
        /\ \A n \in 1..Len(channels0) :
               ~Analysed(channels0[n], samplers, {}) =>
                   ~Removed(TrackKey(channels0[n]))

\* What the run does ensure: a disposed channel that Pass 1 analysed is
\* static, and its key has at least one analysed channel.
C28_DisposedAnalysedAreStatic ==
    (aruns = 1) =>
        \A n \in DisposedChannels :
            /\ Analysed(channels0[n], samplers, {}) => AnalysedStatic(channels0[n])
            /\ \E m \in ChannelsOf(TrackKey(channels0[n])) : AnalysedStatic(channels0[m])

\* C30: removeStaticTracksWithBake is idempotent: after one application, a
\* second application with the same tolerance disposes no channel and no
\* sampler, and reports no removed track.
C30_SecondRunDisposesNothing ==
    [][(aruns = 1) =>
          /\ channels' = channels
          /\ disposed' = disposed
          /\ counts'.removed = 0]_vars

\* C30 witness: the first application disposed a channel and its sampler and
\* retained a static channel, and the second application has run.
C30_Witness ==
    /\ aruns = 2
    /\ DisposedChannels # {} /\ disposed # {}
    /\ \E n \in 1..Len(channels) : Static(channels[n])

(***************************************************************************)
(* Claims about compress                                                   *)
(***************************************************************************)

Invoked(name) == \E n \in 1..Len(calls) : calls[n] = name

Finished == pc \in {"done", "threw"}

\* C7: for a document that has at least one skin, compress never invokes
\* mergeByDistance, removeDegenerateFaces, decimateBloatedMeshes or the vertex
\* reorder transform, at any point of any execution.
C7_SkinnedNeverRunsGeometry ==
    skins.input =>
        /\ ~Invoked("mergeByDistance") /\ ~Invoked("removeDegenerateFaces")
        /\ ~Invoked("decimateBloatedMeshes") /\ ~Invoked("reorder")

\* C7 witness: a skinned document went through the whole pipeline, past the
\* geometry, GPU and animation phases, and prune() dropped its skins on the way.
C7_Witness ==
    /\ skins.input /\ ~skins.now
    /\ pc = "done"
    /\ Invoked("sparse") /\ Invoked("normalizeWeights")

\* The external step failed: something in it failed, its directory could not
\* be created or removed, or the binary was missing from the start.
ExternalFailed ==
    \/ external.failure # "none"
    \/ thrownAt = "rm"
    \/ ~hasGltfpack /\ pc \in {"fallback", "done", "threw"} /\ thrownAt # "parse"

\* C8: whenever the external compression step fails for any reason,
\* temp-file and temp-directory I/O included, compress does not throw: it
\* returns the in-process codec's result, and an error reaches the caller only
\* if that fallback itself fails.
C8_ExternalFailureFallsBack ==
    (ExternalFailed /\ Finished) =>
        \/ pc = "done" /\ result = MeshoptResult
        \/ pc = "threw" /\ thrownAt = "fallback"

\* The statement of C8 for the failures that the step's try block catches,
\* when the directory is then removed.
C8_HoldsForCaughtFailures ==
    (ExternalFailed /\ Finished /\ thrownAt \notin {"mkdtemp", "rm"}) =>
        \/ pc = "done" /\ result = MeshoptResult
        \/ pc = "threw" /\ thrownAt = "fallback"

\* C9: for every behaviour of the subprocess, one that never exits on its own
\* included, the timeout terminates it and compress eventually returns or
\* throws; it never blocks indefinitely.
C9_CompressEventuallyReturns == <>Finished

\* The statement of C9 for subprocesses that proc.kill() does terminate.
C9_ReturnsUnlessSignalIgnored ==
    <>(Finished \/ (pc = "wait" /\ timer = "fired" /\ proc.state = "running"))

\* C10 as stated: the result's method is "external" exactly when the buffer
\* came from the external process and "fallback" exactly when it came from
\* the in-process codec, and never anything else.
C10_MethodIsExternalOrFallback ==
    (pc = "done") =>
        /\ result.method \in {"external", "fallback"}
        /\ (result.method = "external") <=> (result.buffer = "compressed.glb")
        /\ (result.method = "fallback") <=> (result.buffer = "writeBinary")

\* C10 amended: the result's method is "gltfpack" exactly when the buffer was
\* read from the output file of an external process that exited with code 0,
\* "meshopt" exactly when the in-process codec wrote it, and never anything
\* else.
C10_MethodNamesBackend ==
    (pc = "done") =>
        /\ result.method \in {"gltfpack", "meshopt"}
        /\ (result.method = "gltfpack") <=>
               (/\ result.buffer = "compressed.glb"
                /\ proc.state = "exited" /\ proc.code = 0
                /\ external.value = "result")
        /\ (result.method = "meshopt") <=>
               (result.buffer = "writeBinary" /\ Invoked("meshopt"))

\* C10 witness: the external process exited with a non-zero code and the
\* in-process codec produced the returned buffer.
C10_Witness ==
    /\ pc = "done"
    /\ external.failure = "exit"
    /\ result.buffer = "writeBinary"

C13_ParseFailureRunsNothing ==
    (thrownAt = "parse") =>
        /\ pc = "threw"
        /\ calls = <<"readBinary">>
        /\ tempDir = "none" /\ proc = NoProcess /\ timer = "unset"
        /\ external = NoExternal /\ result = NoResult

\* C13 witness: the parse of the input failed and the call has thrown.
C13_Witness == pc = "threw" /\ thrownAt = "parse" /\ Invoked("readBinary")

\* The positions of an operation in the calls of the compress call.
Pos(name) == {n \in 1..Len(calls) : calls[n] = name}

Min(S) == CHOOSE x \in S : \A y \in S : x <= y

Max(S) == CHOOSE x \in S : \A y \in S : x >= y

\* One operation that marks each phase up to the serialization, in the order
\* parse, strip, cleanup, geometry, GPU, animation, texture, simplify,
\* serialize; and the operations of the final compression.
PhaseMarkers ==
    << "readBinary", "stripCompressionExtensions", "dedup", "mergeByDistance",
       "instance", "resample", "textureCompress", "simplify", "writeBinary" >>

OptionalPhases == {"mergeByDistance", "simplify"}

FinalCompression ==
    {"mkdtemp", "Bun.write", "Bun.spawn", "Bun.file", "rm", "quantize", "meshopt"}

\* C22: within one compress call the phases run one after another in the
\* order parse, strip, cleanup, geometry, GPU, animation, texture, simplify,
\* serialize, final compression: a phase that has run was preceded by every
\* earlier phase but the optional ones, none runs twice, and the final
\* compression runs only after the document was serialized.
C22_PhasesRunInForwardOrder ==
    /\ \A i \in 1..(Len(PhaseMarkers) - 1) : Cardinality(Pos(PhaseMarkers[i])) <= 1
    /\ \A i, j \in 1..Len(PhaseMarkers) :
           (i < j /\ Pos(PhaseMarkers[j]) # {}) =>
               /\ PhaseMarkers[i] \notin OptionalPhases => Pos(PhaseMarkers[i]) # {}
               /\ Pos(PhaseMarkers[i]) # {} =>
                      Max(Pos(PhaseMarkers[i])) < Min(Pos(PhaseMarkers[j]))
    /\ \A name \in FinalCompression : \A n \in Pos(name) :
           /\ Pos("writeBinary") # {}
           /\ n > Min(Pos("writeBinary"))
           /\ \A i \in 1..(Len(PhaseMarkers) - 1) : \A m \in Pos(PhaseMarkers[i]) : m < n

\* A call on a static document with a simplify ratio that ran every phase,
\* tried the external compressor and ended in the fallback.
C22_Witness ==
    /\ pc = "done"
    /\ \A i \in 1..Len(PhaseMarkers) : Invoked(PhaseMarkers[i])
    /\ Invoked("Bun.spawn") /\ Invoked("meshopt")

\* The call has parsed its input and is past the given phases.
PastAnimation ==
    \/ pc \in {"texture", "final", "serialize", "mkdtemp", "write", "spawn", "wait",
                "read", "rm", "fallback", "done"}
    \/ pc = "threw" /\ thrownAt \in {"mkdtemp", "rm", "fallback"}

PastTexture == PastAnimation /\ pc # "texture"

PastStrip == PastAnimation \/ pc \in {"cleanup", "geometry", "gpu", "animation"}

C24_FallbackQuantizesStaticOnly ==
    /\ Invoked("meshopt") => (Invoked("quantize") <=> ~skins.input)
    /\ skins.input => ~Invoked("quantize")
    /\ Invoked("quantize") => Invoked("meshopt")

\* The fallback ran on a skinned document after the external compressor
\* timed out, without quantize.
C24_Witness ==
    /\ pc = "done" /\ result.method = "meshopt"
    /\ skins.input /\ external.failure = "timeout"
    /\ ~Invoked("quantize")

\* What a call does to a document up to and including the serialization of
\* the clean buffer, by the document's skins and the simplify option alone.
CleanBufferSteps(skinned, simplify) ==
    <<"readBinary", "stripCompressionExtensions",
      "analyzeMeshComplexity", "dedup", "prune", "removeUnusedUVs">>
        \o (IF skinned THEN <<>>
            ELSE <<"flatten", "join", "weld",
                   "mergeByDistance", "removeDegenerateFaces", "prune",
                   "decimateBloatedMeshes">>)
        \o (IF skinned THEN <<"instance", "sparse">> ELSE <<"instance", "reorder", "sparse">>)
        \o <<"resample", "removeStaticTracksWithBake">>
        \o (IF skinned THEN <<"normalizeWeights">> ELSE <<>>)
        \o <<"textureCompress", "prune">>
        \o (IF simplify THEN <<"simplify">> ELSE <<>>)
        \o <<"writeBinary">>

IsPrefix(a, b) == Len(a) <= Len(b) /\ a = SubSeq(b, 1, Len(a))

PresetNames == {"default", "balanced", "aggressive", "max"}

\* C25: the preset does not enter what is done to the document: the
\* operations up to the serialized clean buffer are those that the input and
\* the simplify option determine, and the fallback's are those the skin flag
\* determines; the preset chooses the flag list of the external compressor,
\* which is different for any two presets.
C25_PresetOnlyChoosesFlags ==
    /\ LET steps == CleanBufferSteps(skins.input, options.simplify)
       IN IF Len(calls) <= Len(steps) THEN IsPrefix(calls, steps)
          ELSE IsPrefix(steps, calls)
    /\ \A n \in 1..Len(calls) :
           n > Len(CleanBufferSteps(skins.input, options.simplify)) =>
               calls[n] \in FinalCompression \cup {"writeBinary"}
    /\ proc.state # "none" =>
           \A p \in PresetNames :
               (proc.args = GltfpackArgs(p, hasSkins)) <=> (p = options.preset)

\* A call under the max preset that the external compressor finished, with
\* a flag list that no other preset gives.
C25_Witness ==
    /\ pc = "done" /\ result.method = "gltfpack" /\ options.preset = "max"
    /\ IsPrefix(CleanBufferSteps(skins.input, options.simplify), calls)
    /\ proc.args # GltfpackArgs("aggressive", hasSkins)

\* The steps of the external compression: they work on files and on the
\* subprocess.
ExternalSteps == {"mkdtemp", "Bun.write", "Bun.spawn", "Bun.file", "rm"}

\* The operations on the document among the calls, in order.
DocumentSteps == SelectSeq(calls, LAMBDA c : c \notin ExternalSteps)

InExternalStep == pc \in {"mkdtemp", "write", "spawn", "wait", "read", "rm"}

\* C26: while the external compression runs, and when the fallback is about
\* to run after it failed, the document has undergone exactly the operations
\* it had undergone when the clean buffer was serialized; the fallback then
\* applies its own transforms to that document and nothing else.
C26_FallbackSeesSerializedDocument ==
    LET steps == CleanBufferSteps(skins.input, options.simplify)
    IN /\ (InExternalStep \/ pc = "fallback") => DocumentSteps = steps
       /\ (pc = "threw" /\ thrownAt \in {"mkdtemp", "rm"}) => DocumentSteps = steps
       /\ Invoked("meshopt") =>
              DocumentSteps
                  = steps \o (IF skins.input THEN <<"meshopt">> ELSE <<"quantize", "meshopt">>)
                          \o <<"writeBinary">>

\* The fallback ran after the subprocess had been spawned and had failed.
C26_Witness ==
    /\ pc = "done" /\ result.method = "meshopt"
    /\ Invoked("Bun.spawn") /\ external.failure \in {"exit", "timeout", "read"}
    /\ Len(DocumentSteps) < Len(calls)

(***************************************************************************)
(* Claims about init                                                       *)
(***************************************************************************)

\* C11: for any number of init() and compress() calls, sequential or
\* concurrent, the body of doInit runs at most once, every caller resumes only
\* after that one run has completed, and no compress call reads its input
\* through io before it has completed.
C11_InitIsSingleFlight ==
    /\ doInitRuns <= 1
    /\ \A c \in DOMAIN callers :
          /\ callers[c].pc = "read" => (initPc = "done" /\ callers[c].io)
          /\ (callers[c].pc = "awaiting" /\ initPc # "done") => doInitRuns = 1

\* C11 witness: two compress calls awaited the same initialization at the
\* same time and both have read their input, after an earlier call returned.
C11_Witness ==
    /\ doInitRuns = 1
    /\ ncalls = MaxCalls
    /\ \E c, d \in DOMAIN callers :
          /\ c # d
          /\ callers[c].kind = "compress" /\ callers[c].pc = "read"
          /\ callers[d].kind = "compress" /\ callers[d].pc = "read"

(***************************************************************************)
(* Claims about handleCompressStream                                       *)
(***************************************************************************)

IsTerminal(e) == e[1] \in {"result", "error"}

\* Log events only, then at most one terminal event, which is the last one;
\* the stream is closed exactly when the terminal event has been sent, and
\* that event is result when compress returned and error when it threw.
EventsWellFormed ==
    /\ \A n \in 1..Len(events) :
          /\ events[n][1] \in {"log", "result", "error"}
          /\ IsTerminal(events[n]) => n = Len(events)
    /\ (stream = "closed") <=> (events # <<>> /\ IsTerminal(events[Len(events)]))
    /\ (stream = "closed" /\ pc = "threw") => events[Len(events)][1] = "error"
    /\ (stream = "closed" /\ pc = "done") => events[Len(events)][1] = "result"

\* C15: the stream of an accepted request carries log events followed by
\* exactly one terminal event (result if compress succeeded, error if it
\* threw), never both and nothing after it, and is then closed.
C15_StreamEndsWithOneTerminalEvent ==
    /\ []EventsWellFormed
    /\ (stream = "open") ~> (stream = "closed")

\* The order and number of the events, without the promise that the terminal
\* event comes.
C15_EventsAreWellFormed == EventsWellFormed

\* The statement of C15 for compress calls whose subprocess proc.kill() does
\* terminate.
C15_ClosesUnlessCompressBlocks ==
    (stream = "open") ~>
        (stream = "closed" \/ (pc = "wait" /\ timer = "fired" /\ proc.state = "running"))

====
